---- MODULE Spec2Model ----
(***************************************************************************)
(* The enhanced performance-test engine of src/src/performance_enhanced.rs *)
(* as a state machine: one run of run_load_test (the control loop of       *)
(* run_constant_vus / run_ramping_vus, the semaphore, the spawned          *)
(* iterations and the shared MetricsCollector).                            *)
(*                                                                         *)
(* Time is the whole number of seconds the code reads through              *)
(* Instant::elapsed().as_secs().  The duration of a request is measured in *)
(* tenths of a second and recorded, as in the code, as an f64 number of    *)
(* seconds; the statistics of the collector are computed in f64            *)
(* arithmetic.                                                             *)
(***************************************************************************)
EXTENDS Integers, Sequences, FiniteSets, Bags, TLC

\* ------------------------------------------------------------------ bounds
MaxStages == 2      \* longest stage list drawn
MaxDur == 2         \* longest stage duration (seconds)
MaxVus == 2         \* largest stage target and largest `initial`
MaxSpawned == 2     \* iterations spawned in one run (caps the control loop)
MaxLatency == 1     \* largest request duration recorded (tenths of a second)
MaxSamples == 3     \* samples added to a collector on its own
MaxElapsed == 2     \* largest duration of such a sample (tenths of a second)
MaxScenarios == 3   \* longest scenario list the selector is given
MaxWeight == 3      \* largest weight of a scenario in such a list
MaxResults == 2     \* samples in a collector a run hands to the evaluation

\* ------------------------------------------------------------ configuration
ProfileTypes ==
  {"constant_vus", "ramping_vus", "constant_arrival_rate",
   "ramping_arrival_rate", "spike"}

LoadStage == [duration_secs : 1..MaxDur, target : 0..MaxVus]

StageLists == UNION {[1..n -> LoadStage] : n \in 0..MaxStages}

NoTags == [k \in {} |-> ""]

\* Scenarios the runs draw from: a plain one, a heavier one that declares a
\* tag of its own, and one whose method is no HTTP method token.
ScenarioA == [name |-> "a", method |-> "GET", weight |-> 1, tags |-> NoTags]
ScenarioB ==
  [name |-> "b", method |-> "POST", weight |-> 2,
   tags |-> [k \in {"env"} |-> "prod"]]
ScenarioBad ==
  [name |-> "bad", method |-> "GE T", weight |-> 1, tags |-> NoTags]

\* A scenario that declares tags under the keys of two synthetic tags and
\* one of its own.
ScenarioOverride ==
  [name |-> "o", method |-> "PUT", weight |-> 1,
   tags |-> [k \in {"scenario", "status", "team"} |->
               CASE k = "scenario" -> "x" [] k = "status" -> "any"
                 [] OTHER -> "t"]]

ScenarioLists ==
  {<<>>, <<ScenarioA>>, <<ScenarioA, ScenarioB>>, <<ScenarioA, ScenarioBad>>}

Statuses == {200, 500}

\* Statuses on either side of the two ends of the 2xx range
BoundaryStatuses == {199, 200, 299, 300}

Latencies == 1..MaxLatency

\* ------------------------------------------------------------------ helpers
Max(a, b) == IF a >= b THEN a ELSE b

\* u32::saturating_sub
saturating_sub(a, b) == IF a >= b THEN a - b ELSE 0

\* HashMap::extend: the entries of `more` replace those of `base`.
\* The map that keeps its own entry where `more` has one of the same key.
extend_keeping_own(base, more) ==
  [k \in DOMAIN base \cup DOMAIN more |->
     IF k \in DOMAIN base THEN base[k] ELSE more[k]]

\* HashMap::extend: the entries of `more` are inserted, replacing an entry of
\* the same key
extend(base, more) ==
  [k \in DOMAIN base \cup DOMAIN more |->
     IF k \in DOMAIN more THEN more[k] ELSE base[k]]

\* u16::to_string on the statuses the model draws
status_to_string(s) ==
  CASE s = 199 -> "199"
    [] s = 200 -> "200"
    [] s = 299 -> "299"
    [] s = 300 -> "300"
    [] s = 500 -> "500"
    [] OTHER -> "other"

\* http::Method::from_bytes: a method is a non-empty token (no separators).
method_from_bytes_ok(m) == m \in {"GET", "POST", "PUT", "DELETE", "PATCH", "HEAD", "OPTIONS"}

RECURSIVE SumWeights(_)
SumWeights(scs) ==
  IF scs = <<>> THEN 0 ELSE Head(scs).weight + SumWeights(Tail(scs))

\* The walk with `random_value <= cumulative_weight` for its test.
RECURSIVE WalkWeightsInclusive(_, _, _, _)
WalkWeightsInclusive(scs, random_value, i, cumulative_weight) ==
  IF i > Len(scs) THEN 0
  ELSE IF random_value <= cumulative_weight + scs[i].weight THEN i
  ELSE WalkWeightsInclusive(scs, random_value, i + 1,
                            cumulative_weight + scs[i].weight)

\* The walk of select_weighted_scenario from index i with the weight
\* accumulated so far; 0 when the walk ends without a pick (the fallback).
RECURSIVE WalkWeights(_, _, _, _)
WalkWeights(scs, random_value, i, cumulative_weight) ==
  IF i > Len(scs) THEN 0
  ELSE IF random_value < cumulative_weight + scs[i].weight THEN i
  ELSE WalkWeights(scs, random_value, i + 1, cumulative_weight + scs[i].weight)

\* Index (from 1) of the scenario select_weighted_scenario returns for a
\* non-empty list and the draw random_value in 0..total_weight-1.
select_weighted_scenario(scs, random_value) ==
  IF Len(scs) = 1 THEN 1
  ELSE LET i == WalkWeights(scs, random_value, 1, 0)
       IN IF i = 0 THEN 1 ELSE i

\* ---------------------------------------------------------------------- f64
\* A finite f64 that is not negative is [m, e] and stands for m * 2^e: m is a
\* natural of exactly 53 bits written in digits of 13 bits, lowest digit
\* first; zero is F64Zero.  A sum, product or quotient is computed exactly and
\* then rounded to 53 bits, halves to even: what IEEE 754 arithmetic does.
Radix == 2 ^ 13

F64Zero == [m |-> <<>>, e |-> 0]

IsOdd(n) == n % 2 = 1

\* Digits of a natural below Radix^2
Digits(n) ==
  IF n = 0 THEN <<>>
  ELSE IF n < Radix THEN <<n>>
  ELSE <<n % Radix, n \div Radix>>

RECURSIVE Strip(_)
Strip(a) ==
  IF a = <<>> THEN <<>>
  ELSE IF a[Len(a)] = 0 THEN Strip(SubSeq(a, 1, Len(a) - 1))
  ELSE a

Digit(a, i) == IF i <= Len(a) THEN a[i] ELSE 0

RECURSIVE BAddFrom(_, _, _, _)
BAddFrom(a, b, i, carry) ==
  IF i > Len(a) /\ i > Len(b)
    THEN (IF carry = 0 THEN <<>> ELSE <<carry>>)
    ELSE LET s == Digit(a, i) + Digit(b, i) + carry
         IN <<s % Radix>> \o BAddFrom(a, b, i + 1, s \div Radix)

BAdd(a, b) == BAddFrom(a, b, 1, 0)

\* a - b for a >= b
RECURSIVE BSubFrom(_, _, _, _)
BSubFrom(a, b, i, borrow) ==
  IF i > Len(a) THEN <<>>
  ELSE LET s == Digit(a, i) - Digit(b, i) - borrow
       IN <<IF s < 0 THEN s + Radix ELSE s>>
          \o BSubFrom(a, b, i + 1, IF s < 0 THEN 1 ELSE 0)

BSub(a, b) == Strip(BSubFrom(a, b, 1, 0))

\* a < b for digit strings without leading zeros
RECURSIVE BLessFrom(_, _, _)
BLessFrom(a, b, i) ==
  IF i = 0 THEN FALSE
  ELSE IF a[i] # b[i] THEN a[i] < b[i]
  ELSE BLessFrom(a, b, i - 1)

BLess(a, b) ==
  IF Len(a) # Len(b) THEN Len(a) < Len(b) ELSE BLessFrom(a, b, Len(a))

RECURSIVE BMulFrom(_, _, _, _)
BMulFrom(a, k, i, carry) ==
  IF i > Len(a) THEN Digits(carry)
  ELSE LET p == a[i] * k + carry
       IN <<p % Radix>> \o BMulFrom(a, k, i + 1, p \div Radix)

\* a * k for k below 2^17
BMulSmall(a, k) == Strip(BMulFrom(a, k, 1, 0))

\* Quotient and remainder of a by n, n below 2^17
RECURSIVE BDivFrom(_, _, _, _)
BDivFrom(a, n, i, rem) ==
  IF i = 0 THEN [q |-> <<>>, r |-> rem]
  ELSE LET cur == rem * Radix + a[i]
           rest == BDivFrom(a, n, i - 1, cur % n)
       IN [q |-> Append(rest.q, cur \div n), r |-> rest.r]

BDivSmall(a, n) ==
  LET d == BDivFrom(a, n, Len(a), 0) IN [q |-> Strip(d.q), r |-> d.r]

RECURSIVE SmallBitLen(_)
SmallBitLen(n) == IF n = 0 THEN 0 ELSE 1 + SmallBitLen(n \div 2)

BitLen(a) ==
  IF a = <<>> THEN 0 ELSE 13 * (Len(a) - 1) + SmallBitLen(a[Len(a)])

BShiftLeft(a, j) ==
  IF a = <<>> THEN <<>>
  ELSE [i \in 1..(j \div 13) |-> 0] \o BMulSmall(a, 2 ^ (j % 13))

\* a / 2^j cut off, and whether a bit was lost
BShiftRight(a, j) ==
  LET whole == j \div 13
      kept == IF whole >= Len(a) THEN <<>> ELSE SubSeq(a, whole + 1, Len(a))
      d == BDivSmall(kept, 2 ^ (j % 13))
  IN [q |-> d.q,
      lost |-> d.r # 0 \/ \E i \in 1..whole : Digit(a, i) # 0]

\* An operand is worked out once, before the operation, by drawing it from
\* the set that holds it: x \in {operand}.

\* n * 2^e cut to 54 bits or fewer, and whether a bit was lost
Cut54(n, e) ==
  LET d == BitLen(n) - 53
      s == BShiftRight(n, d - 1)
  IN [q |-> s.q, e |-> e + d - 1, lost |-> s.lost]

\* The f64 nearest to q * 2^e (+ a little, if `sticky`) for q of 54 bits,
\* halves to even
RoundLastBit(q, e, sticky) ==
  CHOOSE f \in
    {IF BitLen(r) = 54 THEN [m |-> BDivSmall(r, 2).q, e |-> e + 2]
                       ELSE [m |-> r, e |-> e + 1] :
       r \in {IF IsOdd(q[1]) /\ (sticky \/ IsOdd(h[1]))
                THEN BAdd(h, <<1>>) ELSE h : h \in {BDivSmall(q, 2).q}}} : TRUE

\* The f64 nearest to n * 2^e (+ a little, if `sticky`), halves to even
Round53(n, e, sticky) ==
  CHOOSE f \in
    {IF BitLen(v) = 0 THEN F64Zero
     ELSE IF BitLen(v) <= 53
       THEN [m |-> BShiftLeft(v, 53 - BitLen(v)), e |-> e - (53 - BitLen(v))]
     ELSE CHOOSE g \in {RoundLastBit(c.q, c.e, c.lost \/ sticky) :
                          c \in {Cut54(v, e)}} : TRUE :
     v \in {n}} : TRUE

\* `n as f64` for a natural below 2^26
F64FromInt(n) == Round53(Digits(n), 0, FALSE)

\* a + b of two values
AddExact(a, b) ==
  LET e == IF a.e < b.e THEN a.e ELSE b.e
  IN CHOOSE f \in {Round53(BAdd(l, r), e, FALSE) :
                     l \in {BShiftLeft(a.m, a.e - e)},
                     r \in {BShiftLeft(b.m, b.e - e)}} : TRUE

F64Add(x, y) ==
  CHOOSE f \in
    {IF a = F64Zero THEN b ELSE IF b = F64Zero THEN a ELSE AddExact(a, b) :
       a \in {x}, b \in {y}} : TRUE

\* x / (n as f64) for a natural n, 0 < n < 2^13
F64DivInt(x, n) ==
  CHOOSE f \in
    {IF a = F64Zero THEN F64Zero
     ELSE CHOOSE g \in {Round53(d.q, a.e - 26, d.r # 0) :
                          d \in {BDivSmall(BShiftLeft(a.m, 26), n)}} : TRUE :
     a \in {x}} : TRUE

\* x * (k as f64) for a natural k below 2^17
F64MulInt(x, k) ==
  CHOOSE f \in
    {IF a = F64Zero THEN F64Zero ELSE Round53(BMulSmall(a.m, k), a.e, FALSE) :
       a \in {x}} : TRUE

\* x < y
F64Less(x, y) ==
  \E a \in {x}, b \in {y} :
    IF b = F64Zero THEN FALSE
    ELSE IF a = F64Zero THEN TRUE
    ELSE IF a.e # b.e THEN a.e < b.e
    ELSE BLess(a.m, b.m)

\* (x - y).abs() < f64::EPSILON (2^-52); the difference is compared before
\* it is rounded, which decides the same since 2^-52 is an f64.
F64AbsDiffBelowEpsilon(x, y) ==
  \E vx \in {x}, vy \in {y} :
    IF vx = vy THEN TRUE
    ELSE LET nx == IF vx = F64Zero THEN [m |-> <<>>, e |-> vy.e] ELSE vx
             ny == IF vy = F64Zero THEN [m |-> <<>>, e |-> vx.e] ELSE vy
             e == IF nx.e < ny.e THEN nx.e ELSE ny.e
         IN \E a \in {BShiftLeft(nx.m, nx.e - e)},
               b \in {BShiftLeft(ny.m, ny.e - e)} :
              \E diff \in {IF BLess(a, b) THEN BSub(b, a) ELSE BSub(a, b)} :
                \* diff * 2^e < 2^-52
                e < -52 /\ BitLen(diff) <= -52 - e

\* Duration::as_secs_f64 of a duration of `tenths` tenths of a second:
\* secs as f64 + nanos as f64 / 1e9, where nanos is (tenths % 10) * 10^8 and
\* the quotient, rounded once, is that of tenths % 10 by 10.
secs_f64(tenths) ==
  F64Add(F64FromInt(tenths \div 10), F64DivInt(F64FromInt(tenths % 10), 10))

\* The values a sample carries, computed once: as_secs_f64 of the durations
\* drawn, `status as f64` of the statuses drawn, and 1.0.
as_secs_f64 == [tenths \in 0..(MaxLatency + MaxElapsed) |-> secs_f64(tenths)]

status_as_f64 ==
  [status \in Statuses \cup BoundaryStatuses |-> F64FromInt(status)]

F64One == F64FromInt(1)

\* ------------------------------------------------------- MetricsCollector
MetricsCollector_new ==
  [results |-> <<>>,
   metrics |-> [n \in {} |-> <<>>],
   metrics_by_tag |-> [t \in {} |-> [n \in {} |-> <<>>]]]

\* The values add_result pushes to the series `name`, in the order of the
\* code: the basic response_time and success values, then the sample's own
\* (custom) metrics.
PushedValues(result, name) ==
  (IF name = "response_time" THEN <<result.duration>> ELSE <<>>)
  \o (IF name = "success"
        THEN <<IF result.success THEN F64One ELSE F64Zero>> ELSE <<>>)
  \o (IF name \in DOMAIN result.metrics
        THEN <<result.metrics[name]>> ELSE <<>>)

PushedNames(result) == {"response_time", "success"} \cup DOMAIN result.metrics

\* add_metric for every series add_result touches
add_metric(series, result) ==
  [n \in DOMAIN series \cup PushedNames(result) |->
     (IF n \in DOMAIN series THEN series[n] ELSE <<>>)
     \o PushedValues(result, n)]

tag_key(tag_name, tag_value) == tag_name \o ":" \o tag_value

TagKeys(result) == {tag_key(k, result.tags[k]) : k \in DOMAIN result.tags}

\* add_metric_by_tag for every tag of the sample
add_metric_by_tag(by_tag, result) ==
  [t \in DOMAIN by_tag \cup TagKeys(result) |->
     LET old == IF t \in DOMAIN by_tag THEN by_tag[t] ELSE [n \in {} |-> <<>>]
     IN IF t \in TagKeys(result) THEN add_metric(old, result) ELSE old]

add_result(mc, result) ==
  [results |-> Append(mc.results, result),
   metrics |-> add_metric(mc.metrics, result),
   metrics_by_tag |-> add_metric_by_tag(mc.metrics_by_tag, result)]

\* The RequestResult execute_scenario builds from a response that took
\* `elapsed` tenths of a second.
\* The range taken with 300 inside.
status_is_success_to_300(status) == status >= 200 /\ status <= 300

\* `let success = status >= 200 && status < 300;`
status_is_success(status) == status >= 200 /\ status < 300

RequestResult(scenario, status, elapsed) ==
  [scenario |-> scenario.name,
   status |-> status,
   duration |-> as_secs_f64[elapsed],
   success |-> status_is_success(status),
   metrics |-> [n \in {"response_time", "status_code"} |->
                  IF n = "response_time" THEN as_secs_f64[elapsed]
                  ELSE status_as_f64[status]],
   tags |-> extend(
     [k \in {"scenario", "method", "status"} |->
        CASE k = "scenario" -> scenario.name
          [] k = "method" -> scenario.method
          [] OTHER -> status_to_string(status)],
     scenario.tags)]

\* ------------------------------------------------------ get_metrics_summary
\* serde_json values: a number is [u64 |-> n] or [f64 |-> x], an object is
\* [object |-> its map].
JU64(n) == [u64 |-> n]

JF64(x) == [f64 |-> x]

JObject(map) == [object |-> map]

\* Value::get(key) is Some
json_has(v, key) == "object" \in DOMAIN v /\ key \in DOMAIN v.object

\* Value::get(key).unwrap()
json_get(v, key) == v.object[key]

\* Value::as_f64().unwrap_or(0.0)
as_f64_or_zero(v) ==
  IF "f64" \in DOMAIN v THEN v.f64
  ELSE IF "u64" \in DOMAIN v THEN F64FromInt(v.u64)
  ELSE F64Zero

\* TRUE. Evaluating it evaluates x: TLC hands an argument on unevaluated, and
\* a fold that never looked at its accumulator would be evaluated as deep as
\* the series is long.
Evaluated(x) == x = x

\* values.iter().sum::<f64>(): the values are added to the accumulator in
\* the order of the Vec. (This and the next two folds go through lo..hi from
\* left to right; the range is halved only to keep the evaluation shallow.)
RECURSIVE SumFrom(_, _, _, _)
SumFrom(values, lo, hi, acc) ==
  IF lo > hi THEN acc
  ELSE IF lo = hi THEN F64Add(acc, values[lo])
  ELSE LET mid == (lo + hi) \div 2
       IN CHOOSE f \in {SumFrom(values, mid + 1, hi, left) :
                          left \in {SumFrom(values, lo, mid, acc)}} : TRUE

f64_sum(values) == SumFrom(values, 1, Len(values), F64Zero)

\* values.iter().fold(f64::INFINITY, |a, &b| a.min(b)) of a non-empty Vec
RECURSIVE MinFrom(_, _, _, _)
MinFrom(values, lo, hi, acc) ==
  IF lo > hi THEN acc
  ELSE IF lo = hi THEN (IF F64Less(values[lo], acc) THEN values[lo] ELSE acc)
  ELSE LET mid == (lo + hi) \div 2
       IN CHOOSE f \in {MinFrom(values, mid + 1, hi, left) :
                          left \in {MinFrom(values, lo, mid, acc)}} : TRUE

f64_min(values) == MinFrom(values, 2, Len(values), values[1])

\* values.iter().fold(f64::NEG_INFINITY, |a, &b| a.max(b)) of a non-empty Vec
RECURSIVE MaxFrom(_, _, _, _)
MaxFrom(values, lo, hi, acc) ==
  IF lo > hi THEN acc
  ELSE IF lo = hi THEN (IF F64Less(acc, values[lo]) THEN values[lo] ELSE acc)
  ELSE LET mid == (lo + hi) \div 2
       IN CHOOSE f \in {MaxFrom(values, mid + 1, hi, left) :
                          left \in {MaxFrom(values, lo, mid, acc)}} : TRUE

f64_max(values) == MaxFrom(values, 2, Len(values), values[1])

\* sorted_values.sort_by(|a, b| a.partial_cmp(b).unwrap()): the k-th place
\* holds the value that has fewer than k values below it and at least k
\* values that are not above it.
sort_by_partial_cmp(values) ==
  [k \in 1..Len(values) |->
     CHOOSE v \in {values[i] : i \in 1..Len(values)} :
       /\ Cardinality({i \in 1..Len(values) : F64Less(values[i], v)}) < k
       /\ Cardinality({i \in 1..Len(values) : ~F64Less(v, values[i])}) >= k]

\* x.round() as usize for an f64 below 2^26: halves round away from zero
F64RoundToInt(x) ==
  IF x = F64Zero THEN 0
  ELSE LET twice == BShiftRight(x.m, (0 - x.e) - 1).q
       IN (Digit(twice, 1) + Digit(twice, 2) * Radix + 1) \div 2

\* The index cut off instead of rounded.
percentile_index_truncated(len, p) ==
  LET x == F64MulInt(F64DivInt(F64FromInt(p), 100), len - 1)
  IN IF x = F64Zero THEN 0
     ELSE LET whole == BShiftRight(x.m, 0 - x.e).q
          IN Digit(whole, 1) + Digit(whole, 2) * Radix

\* (p / 100.0 * (len - 1) as f64).round() as usize
percentile_index(len, p) ==
  F64RoundToInt(F64MulInt(F64DivInt(F64FromInt(p), 100), len - 1))

percentile(sorted_values, p) ==
  IF sorted_values = <<>> THEN F64Zero
  ELSE sorted_values[percentile_index(Len(sorted_values), p) + 1]

f64_avg(values) == F64DivInt(f64_sum(values), Len(values))

\* The object get_metrics_summary inserts for a global series
series_summary(values) ==
  LET sorted_values == sort_by_partial_cmp(values)
  IN JObject(
       [k \in {"avg", "min", "max", "p50", "p90", "p95", "p99", "count"} |->
          CASE k = "avg" -> JF64(f64_avg(values))
            [] k = "min" -> JF64(f64_min(values))
            [] k = "max" -> JF64(f64_max(values))
            [] k = "p50" -> JF64(percentile(sorted_values, 50))
            [] k = "p90" -> JF64(percentile(sorted_values, 90))
            [] k = "p95" -> JF64(percentile(sorted_values, 95))
            [] k = "p99" -> JF64(percentile(sorted_values, 99))
            [] OTHER -> JU64(Len(values))])

\* The object get_metrics_summary inserts for a series of a tag
tag_series_summary(values) ==
  JObject(
    [k \in {"avg", "min", "max", "count"} |->
       CASE k = "avg" -> JF64(f64_avg(values))
         [] k = "min" -> JF64(f64_min(values))
         [] k = "max" -> JF64(f64_max(values))
         [] OTHER -> JU64(Len(values))])

\* `if !values.is_empty()`
NonEmptySeries(series) == {n \in DOMAIN series : series[n] # <<>>}

\* `results.iter().filter(..).count()`, the filter given as the set of the
\* positions it keeps
IsSuccess(results) == {i \in 1..Len(results) : results[i].success}

IsError(results) == {i \in 1..Len(results) : ~results[i].success}

OfScenario(results, scenario) ==
  {i \in 1..Len(results) : results[i].scenario = scenario}

\* The roll-up get_metrics_summary inserts for a scenario name
scenario_summary(results, scenario) ==
  LET total_count == Cardinality(OfScenario(results, scenario))
      success_count ==
        Cardinality(OfScenario(results, scenario) \cap IsSuccess(results))
  IN JObject(
       [k \in {"total_requests", "success_count", "error_count",
               "success_rate"} |->
          CASE k = "total_requests" -> JU64(total_count)
            [] k = "success_count" -> JU64(success_count)
            [] k = "error_count" -> JU64(total_count - success_count)
            [] OTHER ->
                 JF64(IF total_count > 0
                        THEN F64MulInt(F64DivInt(F64FromInt(success_count),
                                                 total_count), 100)
                        ELSE F64Zero)])

get_metrics_summary(mc) ==
  LET totals ==
        [k \in {"total_requests", "success_count", "error_count"} |->
           CASE k = "total_requests" -> JU64(Len(mc.results))
             [] k = "success_count" -> JU64(Cardinality(IsSuccess(mc.results)))
             [] OTHER -> JU64(Cardinality(IsError(mc.results)))]
      series ==
        [n \in NonEmptySeries(mc.metrics) |-> series_summary(mc.metrics[n])]
      by_tag ==
        JObject([t \in DOMAIN mc.metrics_by_tag |->
                   JObject([n \in NonEmptySeries(mc.metrics_by_tag[t]) |->
                              tag_series_summary(mc.metrics_by_tag[t][n])])])
      scenarios_summary ==
        JObject([s \in {mc.results[i].scenario : i \in 1..Len(mc.results)} |->
                   scenario_summary(mc.results, s)])
  IN JObject(extend(extend(totals, series),
                    [k \in {"by_tag", "scenarios"} |->
                       IF k = "by_tag" THEN by_tag ELSE scenarios_summary]))

\* ------------------------------------------------------- evaluate_threshold
Char(s, i) == SubSeq(s, i, i)

\* str::split(sep): the pieces between the separators, empty ones included
RECURSIVE SplitFrom(_, _, _, _)
SplitFrom(s, sep, i, piece) ==
  IF i > Len(s) THEN <<piece>>
  ELSE IF Char(s, i) = sep THEN <<piece>> \o SplitFrom(s, sep, i + 1, "")
  ELSE SplitFrom(s, sep, i + 1, piece \o Char(s, i))

split(s, sep) == SplitFrom(s, sep, 1, "")

IsWhitespace(c) == c \in {" ", "\t", "\n"}

\* str::split_whitespace(): the non-empty pieces between runs of whitespace
RECURSIVE SplitWhitespaceFrom(_, _, _)
SplitWhitespaceFrom(s, i, token) ==
  LET ended == IF token = "" THEN <<>> ELSE <<token>>
  IN IF i > Len(s) THEN ended
     ELSE IF IsWhitespace(Char(s, i))
       THEN ended \o SplitWhitespaceFrom(s, i + 1, "")
     ELSE SplitWhitespaceFrom(s, i + 1, token \o Char(s, i))

split_whitespace(s) == SplitWhitespaceFrom(s, 1, "")

DecimalDigits == <<"0", "1", "2", "3", "4", "5", "6", "7", "8", "9">>

IsDecimal(s) ==
  \A i \in 1..Len(s) : \E d \in 1..10 : DecimalDigits[d] = Char(s, i)

DigitValue(c) == (CHOOSE d \in 1..10 : DecimalDigits[d] = c) - 1

RECURSIVE DecimalValue(_)
DecimalValue(s) ==
  IF s = "" THEN 0
  ELSE DecimalValue(SubSeq(s, 1, Len(s) - 1)) * 10 + DigitValue(Char(s, Len(s)))

\* str::parse::<f64>() of the literals the model configures: digits with an
\* optional point ("5", "0.15", "5.", ".5"); anything else is an Err here.
\* The value is the f64 nearest to the decimal (up to 3 decimals).
parse_f64(token) ==
  LET parts == split(token, ".")
      whole == parts[1]
      fraction == IF Len(parts) = 2 THEN parts[2] ELSE ""
  IN IF /\ Len(parts) <= 2
        /\ IsDecimal(whole)
        /\ IsDecimal(fraction)
        /\ whole \o fraction # ""
       THEN [ok |-> TRUE,
             value |-> F64DivInt(F64FromInt(DecimalValue(whole \o fraction)),
                                 10 ^ Len(fraction))]
       ELSE [ok |-> FALSE, value |-> F64Zero]

\* The match with the tests for < and <= exchanged.
apply_operator_exchanged(operator, metric_value, threshold_value) ==
  CASE operator = "<" -> ~F64Less(threshold_value, metric_value)
    [] operator = "<=" -> F64Less(metric_value, threshold_value)
    [] operator = ">" -> F64Less(threshold_value, metric_value)
    [] operator = ">=" -> ~F64Less(metric_value, threshold_value)
    [] operator = "==" -> F64AbsDiffBelowEpsilon(metric_value, threshold_value)
    [] operator = "!=" -> ~F64AbsDiffBelowEpsilon(metric_value, threshold_value)
    [] OTHER -> FALSE

\* `match operator { ... }` of evaluate_threshold
apply_operator(operator, metric_value, threshold_value) ==
  CASE operator = "<" -> F64Less(metric_value, threshold_value)
    [] operator = "<=" -> ~F64Less(threshold_value, metric_value)
    [] operator = ">" -> F64Less(threshold_value, metric_value)
    [] operator = ">=" -> ~F64Less(metric_value, threshold_value)
    [] operator = "==" -> F64AbsDiffBelowEpsilon(metric_value, threshold_value)
    [] operator = "!=" -> ~F64AbsDiffBelowEpsilon(metric_value, threshold_value)
    [] OTHER -> FALSE

\* An evaluation that fails a threshold whose metric is not a number.
evaluate_threshold_numbers_only(metrics_summary, threshold) ==
  LET parts == split(threshold.metric, ".")
      metric_name == parts[1]
      metric_type == parts[2]
      expr == split_whitespace(threshold.expression)
      threshold_value == parse_f64(expr[2])
  IN IF Len(parts) # 2 THEN FALSE
     ELSE IF ~json_has(metrics_summary, metric_name) THEN FALSE
     ELSE IF ~json_has(json_get(metrics_summary, metric_name), metric_type)
       THEN FALSE
     ELSE IF DOMAIN json_get(json_get(metrics_summary, metric_name),
                             metric_type) \cap {"f64", "u64"} = {}
       THEN FALSE
     ELSE IF Len(expr) # 2 THEN FALSE
     ELSE IF ~threshold_value.ok THEN FALSE
     ELSE apply_operator(
            expr[1],
            as_f64_or_zero(json_get(json_get(metrics_summary, metric_name),
                                    metric_type)),
            threshold_value.value)

evaluate_threshold(metrics_summary, threshold) ==
  LET parts == split(threshold.metric, ".")
      metric_name == parts[1]
      metric_type == parts[2]
      expr == split_whitespace(threshold.expression)
      threshold_value == parse_f64(expr[2])
  IN IF Len(parts) # 2 THEN FALSE
     ELSE IF ~json_has(metrics_summary, metric_name) THEN FALSE
     ELSE IF ~json_has(json_get(metrics_summary, metric_name), metric_type)
       THEN FALSE
     ELSE IF Len(expr) # 2 THEN FALSE
     ELSE IF ~threshold_value.ok THEN FALSE
     ELSE apply_operator(
            expr[1],
            as_f64_or_zero(json_get(json_get(metrics_summary, metric_name),
                                    metric_type)),
            threshold_value.value)

\* ---------------------------------------------------------- the end of run
\* Option<Vec<Threshold>>: <<>> is None, <<list>> is Some(list)
None == <<>>

Some(x) == <<x>>

\* (success_count as f64 / total_requests as f64) * 100.0, or 0.0
success_rate(metrics_summary) ==
  LET total_requests == json_get(metrics_summary, "total_requests").u64
      success_count == json_get(metrics_summary, "success_count").u64
  IN IF total_requests > 0
       THEN F64MulInt(F64DivInt(F64FromInt(success_count), total_requests), 100)
       ELSE F64Zero

\* `if success_rate >= config.success_threshold`
test_status(rate, success_threshold) ==
  IF ~F64Less(rate, F64FromInt(success_threshold)) THEN "passed" ELSE "failed"

threshold_result(metrics_summary, threshold) ==
  [metric |-> threshold.metric,
   expression |-> threshold.expression,
   passed |-> evaluate_threshold(metrics_summary, threshold)]

\* The loop given up at the first threshold that fails.
RECURSIVE threshold_results_until_failure(_, _, _)
threshold_results_until_failure(metrics_summary, thresholds, i) ==
  IF i > Len(thresholds) THEN <<>>
  ELSE LET r == threshold_result(metrics_summary, thresholds[i])
       IN IF r.passed
            THEN <<r>> \o threshold_results_until_failure(metrics_summary,
                                                          thresholds, i + 1)
            ELSE <<r>>

\* `for threshold in thresholds { ... threshold_results.push(..) }` from the
\* i-th threshold on
RECURSIVE threshold_results_from(_, _, _)
threshold_results_from(metrics_summary, thresholds, i) ==
  IF i > Len(thresholds) THEN <<>>
  ELSE <<threshold_result(metrics_summary, thresholds[i])>>
       \o threshold_results_from(metrics_summary, thresholds, i + 1)

\* A run() that gives up with an error when the metric of a threshold is not
\* of the form <group>.<stat>.
TestResult_or_threshold_error(mc, cfg) ==
  CHOOSE test_result \in
    {[returned |->
        IF /\ cfg.thresholds # None
           /\ \E i \in 1..Len(cfg.thresholds[1]) :
                Len(split(cfg.thresholds[1][i].metric, ".")) # 2
          THEN "threshold_error" ELSE "ok",
      status |-> test_status(success_rate(metrics_summary),
                             cfg.success_threshold),
      metrics |-> metrics_summary,
      thresholds |->
        IF cfg.thresholds = None THEN <<>>
        ELSE threshold_results_from(metrics_summary, cfg.thresholds[1], 1)] :
     metrics_summary \in {get_metrics_summary(mc)}} : TRUE

\* The TestResult run() builds from the collector run_load_test returned.
TestResult(mc, cfg) ==
  CHOOSE test_result \in
    {[returned |-> "ok",
      status |-> test_status(success_rate(metrics_summary),
                             cfg.success_threshold),
      metrics |-> metrics_summary,
      thresholds |->
        IF cfg.thresholds = None THEN <<>>
        ELSE threshold_results_from(metrics_summary, cfg.thresholds[1], 1)] :
     metrics_summary \in {get_metrics_summary(mc)}} : TRUE

\* ---------------------------------------------------------------- the run
VARIABLES
  config,            \* EnhancedPerformanceConfig (load_profile, scenarios)
  pc,                \* where run_load_test is: start, loop, spawn, sleep, finished
  result,            \* what run_load_test returned: none, ok, validation_error
  now,               \* the clock, in seconds
  current_stage,     \* locals of run_constant_vus / run_ramping_vus
  stage_start_time,
  current_vus,
  target_vus,
  stage_elapsed,
  new_vus,
  permits,           \* Semaphore::available_permits
  to_spawn,          \* iterations of `for _ in 0..available_permits` still to run
  tasks,             \* bag of the spawned iterations that have not ended
  metrics,           \* the shared Arc<Mutex<MetricsCollector>>
  final_metrics,     \* the clone run_load_test returns
  spawned,           \* number of iterations spawned so far
  max_target,        \* largest target the scheduler has computed so far
  server,            \* what the target answers: HTTP statuses, NoAnswer
  streamed,          \* summaries the metrics-streaming task has printed
  next_tick,         \* when its interval ticks next, in seconds
  outcome,           \* what run() returned
  selection          \* a draw of select_weighted_scenario and its pick

vars ==
  <<config, pc, result, now, current_stage, stage_start_time, current_vus,
    target_vus, stage_elapsed, new_vus, permits, to_spawn, tasks, metrics,
    final_metrics, spawned, max_target, server, streamed, next_tick, outcome,
    selection>>

\* What the scheduler and the iterations leave alone.
run_vars == <<server, streamed, next_tick, outcome, selection>>

stages == config.load_profile.stages

scenarios == config.scenarios

\* The match with run_spike delegating to run_constant_vus.
algorithm_of_spike_constant(profile_type) ==
  CASE profile_type = "constant_vus" -> "run_constant_vus"
    [] profile_type = "ramping_vus" -> "run_ramping_vus"
    [] profile_type = "constant_arrival_rate" -> "run_constant_vus"
    [] profile_type = "ramping_arrival_rate" -> "run_ramping_vus"
    [] profile_type = "spike" -> "run_constant_vus"

\* run_load_test's match on the profile type: the algorithm that ends up
\* running, run_constant_arrival_rate, run_ramping_arrival_rate and run_spike
\* each handing over to one of the two.
algorithm_of(profile_type) ==
  CASE profile_type = "constant_vus" -> "run_constant_vus"
    [] profile_type = "ramping_vus" -> "run_ramping_vus"
    [] profile_type = "constant_arrival_rate" -> "run_constant_vus"
    [] profile_type = "ramping_arrival_rate" -> "run_ramping_vus"
    [] profile_type = "spike" -> "run_ramping_vus"

IsRamping == algorithm_of(config.load_profile.profile_type) = "run_ramping_vus"

IsConstant ==
  algorithm_of(config.load_profile.profile_type) = "run_constant_vus"

InFlight == BagCardinality(tasks)

\* Permits of the semaphore, free or held by an iteration.
Capacity == permits + InFlight

\* request.send() fails: the target gives no answer (refused, timed out)
NoAnswer == 0

\* The configurations of the scheduler runs: no thresholds, the default
\* success threshold, no streaming of metrics.
Configs ==
  [load_profile : [profile_type : ProfileTypes, stages : StageLists,
                   initial : 0..MaxVus],
   scenarios : ScenarioLists,
   thresholds : {None},
   success_threshold : {95},
   stream_metrics : {FALSE},
   metrics_interval_secs : {10}]

NoOutcome ==
  [returned |-> "none", status |-> "none", metrics |-> JObject(<<>>),
   thresholds |-> <<>>]

NoSelection == [random_value |-> 0, index |-> 0]

Init ==
  /\ config \in Configs
  /\ pc = "start"
  /\ result = "none"
  /\ now = 0
  /\ current_stage = 0
  /\ stage_start_time = 0
  /\ current_vus = 0
  /\ target_vus = 0
  /\ stage_elapsed = 0
  /\ new_vus = 0
  /\ permits = 0
  /\ to_spawn = 0
  /\ tasks = EmptyBag
  /\ metrics = MetricsCollector_new
  /\ final_metrics = MetricsCollector_new
  /\ spawned = 0
  /\ max_target = 0
  /\ server = Statuses \cup {NoAnswer}
  /\ streamed = 0
  /\ next_tick = 0
  /\ outcome = NoOutcome
  /\ selection = NoSelection

\* The emptiness test left out.
stages_is_empty_unchecked(stage_list) == FALSE

\* `if stages.is_empty()` of run_constant_vus and of run_ramping_vus
constant_stages_is_empty(stage_list) == stage_list = <<>>

ramping_stages_is_empty(stage_list) == stage_list = <<>>

\* Either algorithm returns Err(ValidationError) for an empty stage list, which
\* run_load_test passes on with `?`.
RejectEmptyStages ==
  /\ pc = "start"
  /\ \/ IsConstant /\ constant_stages_is_empty(stages)
     \/ IsRamping /\ ramping_stages_is_empty(stages)
  /\ pc' = "finished"
  /\ result' = "validation_error"
  /\ UNCHANGED run_vars
  /\ UNCHANGED <<config, now, current_stage, stage_start_time, current_vus,
                 target_vus, stage_elapsed, new_vus, permits, to_spawn, tasks,
                 metrics, final_metrics, spawned, max_target>>

\* run_constant_vus up to its loop
StartConstantVus ==
  /\ pc = "start"
  /\ IsConstant
  /\ ~constant_stages_is_empty(stages)
  /\ current_stage' = 0
  /\ stage_start_time' = now
  /\ current_vus' = config.load_profile.initial
  /\ permits' = config.load_profile.initial
  /\ max_target' = config.load_profile.initial
  /\ pc' = "loop"
  /\ UNCHANGED run_vars
  /\ UNCHANGED <<config, result, now, target_vus, stage_elapsed, new_vus,
                 to_spawn, tasks, metrics, final_metrics, spawned>>

\* run_ramping_vus up to its loop
StartRampingVus ==
  /\ pc = "start"
  /\ IsRamping
  /\ ~ramping_stages_is_empty(stages)
  /\ current_stage' = 0
  /\ stage_start_time' = now
  /\ current_vus' = config.load_profile.initial
  /\ target_vus' = stages[1].target
  /\ permits' = config.load_profile.initial
  /\ max_target' = config.load_profile.initial
  /\ pc' = "loop"
  /\ UNCHANGED run_vars
  /\ UNCHANGED <<config, result, now, stage_elapsed, new_vus, to_spawn, tasks,
                 metrics, final_metrics, spawned>>

\* `if current_stage >= stages.len() { break; }`, Ok(()) and the clone of the
\* collector that run_load_test returns.
LoopBreak ==
  /\ pc = "loop"
  /\ current_stage >= Len(stages)
  /\ final_metrics' = metrics
  /\ result' = "ok"
  /\ pc' = "finished"
  /\ UNCHANGED run_vars
  /\ UNCHANGED <<config, now, current_stage, stage_start_time, current_vus,
                 target_vus, stage_elapsed, new_vus, permits, to_spawn, tasks,
                 metrics, spawned, max_target>>

\* Permits the stage switch of run_constant_vus adds.
constant_add_permits(vus, available) == Max(vus - available, 0)

\* The stage switch of run_constant_vus.
ConstantStageSwitch ==
  /\ pc = "loop"
  /\ IsConstant
  /\ current_stage < Len(stages)
  /\ now - stage_start_time >= stages[current_stage + 1].duration_secs
  /\ stage_elapsed' = now - stage_start_time
  /\ current_stage' = current_stage + 1
  /\ IF current_stage + 1 < Len(stages)
       THEN /\ current_vus' = stages[current_stage + 2].target
            /\ permits' =
                 permits
                 + constant_add_permits(stages[current_stage + 2].target, permits)
            /\ stage_start_time' = now
            /\ max_target' = Max(max_target, stages[current_stage + 2].target)
       ELSE UNCHANGED <<current_vus, permits, stage_start_time, max_target>>
  /\ UNCHANGED run_vars
  /\ UNCHANGED <<config, pc, result, now, target_vus, new_vus, to_spawn, tasks,
                 metrics, final_metrics, spawned>>

\* A loop that spawns as many iterations as the level asks for.
iterations_to_spawn_up_to_level(available_permits, vus) == vus

\* `let available_permits = semaphore.available_permits();` and
\* `for _ in 0..available_permits`: the turns of the loop that follows
iterations_to_spawn(available_permits, vus) == available_permits

\* The loop body of run_constant_vus inside a stage, up to the first acquire.
ConstantDispatch ==
  /\ pc = "loop"
  /\ IsConstant
  /\ current_stage < Len(stages)
  /\ now - stage_start_time < stages[current_stage + 1].duration_secs
  /\ stage_elapsed' = now - stage_start_time
  /\ to_spawn' = iterations_to_spawn(permits, current_vus)
  /\ pc' = IF to_spawn' > 0 THEN "spawn" ELSE "sleep"
  /\ UNCHANGED run_vars
  /\ UNCHANGED <<config, result, now, current_stage, stage_start_time,
                 current_vus, target_vus, new_vus, permits, tasks, metrics,
                 final_metrics, spawned, max_target>>

\* The stage switch of run_ramping_vus.
RampingStageSwitch ==
  /\ pc = "loop"
  /\ IsRamping
  /\ current_stage < Len(stages)
  /\ now - stage_start_time >= stages[current_stage + 1].duration_secs
  /\ stage_elapsed' = now - stage_start_time
  /\ current_stage' = current_stage + 1
  /\ IF current_stage + 1 < Len(stages)
       THEN /\ current_vus' = target_vus
            /\ target_vus' = stages[current_stage + 2].target
            /\ stage_start_time' = now
       ELSE UNCHANGED <<current_vus, target_vus, stage_start_time>>
  /\ UNCHANGED run_vars
  /\ UNCHANGED <<config, pc, result, now, new_vus, permits, to_spawn, tasks,
                 metrics, final_metrics, spawned, max_target>>

\* (x as f64).round() for the quotient num / den of naturals, den > 0:
\* halves round away from zero.
round_div(num, den) == (2 * num + den) \div (2 * den)

\* The interpolation with the fraction cut off instead of rounded.
interpolated_vus_truncated(current, target, elapsed, duration) ==
  (current * duration + (target - current) * elapsed) \div duration

\* interpolated_vus.round() as u32 of run_ramping_vus:
\* current + (target - current) * (elapsed / duration)
interpolated_vus(current, target, elapsed, duration) ==
  round_div(current * duration + (target - current) * elapsed, duration)

\* Permits the semaphore adjustment of run_ramping_vus adds.
ramping_add_permits(vus, current, available) ==
  LET estimated_active_vus == saturating_sub(current, available)
      current_permits == available + estimated_active_vus
  IN IF vus > current_permits THEN vus - current_permits ELSE 0

\* The loop body of run_ramping_vus inside a stage, up to the first acquire.
RampingDispatch ==
  /\ pc = "loop"
  /\ IsRamping
  /\ current_stage < Len(stages)
  /\ now - stage_start_time < stages[current_stage + 1].duration_secs
  /\ LET elapsed == now - stage_start_time
         vus == interpolated_vus(current_vus, target_vus, elapsed,
                                 stages[current_stage + 1].duration_secs)
         available == permits + ramping_add_permits(vus, current_vus, permits)
     IN /\ stage_elapsed' = elapsed
        /\ new_vus' = vus
        /\ max_target' = Max(max_target, vus)
        /\ permits' = available
        /\ to_spawn' = iterations_to_spawn(available, vus)
        /\ pc' = IF to_spawn' > 0 THEN "spawn" ELSE "sleep"
  /\ UNCHANGED run_vars
  /\ UNCHANGED <<config, result, now, current_stage, stage_start_time,
                 current_vus, target_vus, tasks, metrics, final_metrics,
                 spawned>>

\* The target the scheduler is working to.
Target == IF IsRamping THEN new_vus ELSE current_vus

\* One turn of `for _ in 0..available_permits`: acquire_owned().await (which
\* suspends while no permit is free) and tokio::spawn of the iteration.
AcquireAndSpawn ==
  /\ pc = "spawn"
  /\ permits > 0
  /\ spawned < MaxSpawned
  /\ permits' = permits - 1
  /\ tasks' = tasks (+) SetToBag({[phase |-> "spawned", scen |-> 0,
                                   stage |-> current_stage, vus |-> Target]})
  /\ spawned' = spawned + 1
  /\ to_spawn' = to_spawn - 1
  /\ pc' = IF to_spawn = 1 THEN "sleep" ELSE "spawn"
  /\ UNCHANGED run_vars
  /\ UNCHANGED <<config, result, now, current_stage, stage_start_time,
                 current_vus, target_vus, stage_elapsed, new_vus, metrics,
                 final_metrics, max_target>>

\* sleep(Duration::from_millis(10)).await, then the next turn of the loop.
Sleep ==
  /\ pc = "sleep"
  /\ pc' = "loop"
  /\ UNCHANGED run_vars
  /\ UNCHANGED <<config, result, now, current_stage, stage_start_time,
                 current_vus, target_vus, stage_elapsed, new_vus, permits,
                 to_spawn, tasks, metrics, final_metrics, spawned, max_target>>

\* A second passes while the control loop runs.  Past the end of the current
\* stage more time changes nothing the loop reads (it tests
\* stage_elapsed >= duration_secs and restarts the stage clock).
Tick ==
  /\ pc \in {"loop", "spawn", "sleep"}
  /\ current_stage < Len(stages)
  /\ now - stage_start_time < stages[current_stage + 1].duration_secs
  /\ now' = now + 1
  /\ UNCHANGED run_vars
  /\ UNCHANGED <<config, pc, result, current_stage, stage_start_time,
                 current_vus, target_vus, stage_elapsed, new_vus, permits,
                 to_spawn, tasks, metrics, final_metrics, spawned, max_target>>

\* ----------------------------------------------------- a spawned iteration
\* Result<RequestResult> of execute_scenario
Ok(sample) == [is_ok |-> TRUE, value |-> sample]

Err(error) == [is_ok |-> FALSE, value |-> error]

\* An iteration that records a failed execution as a sample of status 500.
record_result_or_failure(mc, executed) ==
  add_result(mc, IF executed.is_ok THEN executed.value
                 ELSE RequestResult(ScenarioA, 500, 1))

\* `if let Ok(result) = result { metrics_guard.add_result(result); }`
record_result(mc, executed) ==
  IF executed.is_ok THEN add_result(mc, executed.value) ELSE mc

\* The iteration ends and keeps its permit from the semaphore.
EndTask_forgetting_permit(t) ==
  /\ tasks' = tasks (-) SetToBag({t})
  /\ permits' = permits

\* The iteration ends: its permit is dropped.
EndTask(t) ==
  /\ tasks' = tasks (-) SetToBag({t})
  /\ permits' = permits + 1

TaskFrame ==
  /\ UNCHANGED run_vars
  /\ UNCHANGED <<config, pc, result, now, current_stage, stage_start_time,
                 current_vus, target_vus, stage_elapsed, new_vus, to_spawn,
                 final_metrics, spawned, max_target>>

\* select_weighted_scenario panics on an empty list; the panic unwinds the
\* task, which drops the permit it owns.
TaskPanic ==
  \E t \in BagToSet(tasks) :
    /\ t.phase = "spawned"
    /\ scenarios = <<>>
    /\ EndTask(t)
    /\ UNCHANGED metrics
    /\ TaskFrame

\* execute_scenario returns Err for a method that does not parse; the
\* iteration records nothing (`if let Ok(result)`) and drops its permit.
TaskInvalidMethod ==
  \E t \in BagToSet(tasks) :
    /\ t.phase = "spawned"
    /\ scenarios # <<>>
    /\ \E random_value \in 0..(SumWeights(scenarios) - 1) :
         LET i == select_weighted_scenario(scenarios, random_value)
         IN /\ ~method_from_bytes_ok(scenarios[i].method)
            /\ metrics' = record_result(metrics, Err("Invalid HTTP method"))
            /\ EndTask(t)
    /\ TaskFrame

\* An iteration that takes a permit of its own for the request it sends.
TaskSend_acquiring_permit ==
  \E t \in BagToSet(tasks) :
    /\ t.phase = "spawned"
    /\ scenarios # <<>>
    /\ permits > 0
    /\ \E random_value \in 0..(SumWeights(scenarios) - 1) :
         LET i == select_weighted_scenario(scenarios, random_value)
         IN /\ method_from_bytes_ok(scenarios[i].method)
            /\ tasks' = (tasks (-) SetToBag({t}))
                        (+) SetToBag({[t EXCEPT !.phase = "awaiting", !.scen = i]})
    /\ permits' = permits - 1
    /\ UNCHANGED metrics
    /\ TaskFrame

\* The iteration picks a scenario and sends its request.
TaskSend ==
  \E t \in BagToSet(tasks) :
    /\ t.phase = "spawned"
    /\ scenarios # <<>>
    /\ \E random_value \in 0..(SumWeights(scenarios) - 1) :
         LET i == select_weighted_scenario(scenarios, random_value)
         IN /\ method_from_bytes_ok(scenarios[i].method)
            /\ tasks' = (tasks (-) SetToBag({t}))
                        (+) SetToBag({[t EXCEPT !.phase = "awaiting", !.scen = i]})
    /\ UNCHANGED <<permits, metrics>>
    /\ TaskFrame

\* The response arrives: the sample is added under the lock and the permit
\* is dropped.
TaskResponse ==
  \E t \in BagToSet(tasks) :
    /\ t.phase = "awaiting"
    /\ \E status \in server \cap Statuses, elapsed \in Latencies :
         metrics' = record_result(
                      metrics,
                      Ok(RequestResult(scenarios[t.scen], status, elapsed)))
    /\ EndTask(t)
    /\ TaskFrame

\* request.send() fails (connection refused, timeout): `?` returns the error,
\* nothing is recorded, the permit is dropped.
TaskTransportError ==
  \E t \in BagToSet(tasks) :
    /\ t.phase = "awaiting"
    /\ NoAnswer \in server
    /\ metrics' = record_result(metrics, Err("reqwest"))
    /\ EndTask(t)
    /\ TaskFrame

Next ==
  \/ RejectEmptyStages
  \/ StartConstantVus
  \/ StartRampingVus
  \/ LoopBreak
  \/ ConstantStageSwitch
  \/ ConstantDispatch
  \/ RampingStageSwitch
  \/ RampingDispatch
  \/ AcquireAndSpawn
  \/ Sleep
  \/ Tick
  \/ TaskPanic
  \/ TaskInvalidMethod
  \/ TaskSend
  \/ TaskResponse
  \/ TaskTransportError

Spec == Init /\ [][Next]_vars

\* ------------------------------------------------- a collector on its own
\* Samples are added to a fresh collector in any order, as the iterations of a
\* run complete; the summary is computed from the collector.
SampleScenarios == <<ScenarioA, ScenarioB>>

CollectorInit ==
  /\ config = [load_profile |-> [profile_type |-> "constant_vus",
                                 stages |-> <<>>, initial |-> 0],
               scenarios |-> SampleScenarios,
               thresholds |-> None,
               success_threshold |-> 95,
               stream_metrics |-> FALSE,
               metrics_interval_secs |-> 10]
  /\ pc = "collecting"
  /\ result = "none"
  /\ now = 0
  /\ current_stage = 0
  /\ stage_start_time = 0
  /\ current_vus = 0
  /\ target_vus = 0
  /\ stage_elapsed = 0
  /\ new_vus = 0
  /\ permits = 0
  /\ to_spawn = 0
  /\ tasks = EmptyBag
  /\ metrics = MetricsCollector_new
  /\ final_metrics = MetricsCollector_new
  /\ spawned = 0
  /\ max_target = 0
  /\ server = Statuses
  /\ streamed = 0
  /\ next_tick = 0
  /\ outcome = NoOutcome
  /\ selection = NoSelection

\* metrics.lock().unwrap().add_result(result) of one iteration
AddSample ==
  /\ pc = "collecting"
  /\ Len(metrics.results) < MaxSamples
  /\ \E i \in 1..Len(scenarios), status \in server, elapsed \in 1..MaxElapsed :
       metrics' = add_result(metrics,
                             RequestResult(scenarios[i], status, elapsed))
  /\ UNCHANGED run_vars
  /\ UNCHANGED <<config, pc, result, now, current_stage, stage_start_time,
                 current_vus, target_vus, stage_elapsed, new_vus, permits,
                 to_spawn, tasks, final_metrics, spawned, max_target>>

CollectorNext == AddSample

SpecCollector == CollectorInit /\ [][CollectorNext]_vars

\* ------------------------------------------- samples of the RequestExecutor
\* The collector is given the samples execute_scenario builds from answers
\* of a target whose statuses lie on both sides of the ends of the 2xx range,
\* for scenarios without tags, with a tag and with tags under synthetic keys.
ExecutorScenarios == <<ScenarioA, ScenarioB, ScenarioOverride>>

ExecutorInit ==
  /\ config = [load_profile |-> [profile_type |-> "constant_vus",
                                 stages |-> <<>>, initial |-> 0],
               scenarios |-> ExecutorScenarios,
               thresholds |-> None,
               success_threshold |-> 95,
               stream_metrics |-> FALSE,
               metrics_interval_secs |-> 10]
  /\ pc = "collecting"
  /\ result = "none"
  /\ now = 0
  /\ current_stage = 0
  /\ stage_start_time = 0
  /\ current_vus = 0
  /\ target_vus = 0
  /\ stage_elapsed = 0
  /\ new_vus = 0
  /\ permits = 0
  /\ to_spawn = 0
  /\ tasks = EmptyBag
  /\ metrics = MetricsCollector_new
  /\ final_metrics = MetricsCollector_new
  /\ spawned = 0
  /\ max_target = 0
  /\ server = Statuses \cup BoundaryStatuses
  /\ streamed = 0
  /\ next_tick = 0
  /\ outcome = NoOutcome
  /\ selection = NoSelection

\* execute_scenario returns Ok(sample) for an answer of any status, and the
\* iteration adds it.
ExecuteAndRecord ==
  /\ pc = "collecting"
  /\ Len(metrics.results) < MaxSamples
  /\ \E i \in 1..Len(scenarios), status \in server :
       metrics' = record_result(metrics,
                                Ok(RequestResult(scenarios[i], status, 1)))
  /\ UNCHANGED run_vars
  /\ UNCHANGED <<config, pc, result, now, current_stage, stage_start_time,
                 current_vus, target_vus, stage_elapsed, new_vus, permits,
                 to_spawn, tasks, final_metrics, spawned, max_target>>

ExecutorNext == ExecuteAndRecord

SpecExecutor == ExecutorInit /\ [][ExecutorNext]_vars

\* ------------------------------------------------- the selector on its own
\* select_weighted_scenario is called on a list of scenarios of any weights.
WeightedScenario(w) ==
  [name |-> "w", method |-> "GET", weight |-> w, tags |-> NoTags]

WeightedLists ==
  UNION {[1..n -> {WeightedScenario(w) : w \in 1..MaxWeight}] :
           n \in 1..MaxScenarios}

SelectorInit ==
  /\ config \in [load_profile : {[profile_type |-> "constant_vus",
                                  stages |-> <<>>, initial |-> 0]},
                  scenarios : WeightedLists,
                  thresholds : {None},
                  success_threshold : {95},
                  stream_metrics : {FALSE},
                  metrics_interval_secs : {10}]
  /\ pc = "selecting"
  /\ result = "none"
  /\ now = 0
  /\ current_stage = 0
  /\ stage_start_time = 0
  /\ current_vus = 0
  /\ target_vus = 0
  /\ stage_elapsed = 0
  /\ new_vus = 0
  /\ permits = 0
  /\ to_spawn = 0
  /\ tasks = EmptyBag
  /\ metrics = MetricsCollector_new
  /\ final_metrics = MetricsCollector_new
  /\ spawned = 0
  /\ max_target = 0
  /\ server = Statuses
  /\ streamed = 0
  /\ next_tick = 0
  /\ outcome = NoOutcome
  /\ selection = NoSelection

\* One call: gen_range(0..total_weight) unless the list has a single
\* scenario, and the pick.
Select ==
  /\ pc = "selecting"
  /\ \E random_value \in
         (IF Len(scenarios) = 1 THEN {0} ELSE 0..(SumWeights(scenarios) - 1)) :
       selection' =
         [random_value |-> random_value,
          index |-> select_weighted_scenario(scenarios, random_value)]
  /\ UNCHANGED <<server, streamed, next_tick, outcome>>
  /\ UNCHANGED <<config, pc, result, now, current_stage, stage_start_time,
                 current_vus, target_vus, stage_elapsed, new_vus, permits,
                 to_spawn, tasks, metrics, final_metrics, spawned, max_target>>

SelectorNext == Select

SpecSelector == SelectorInit /\ [][SelectorNext]_vars

\* ------------------------------------------------- run() after the load test
\* The results of a collector, added again in the order given.
RECURSIVE Replay(_)
Replay(results) ==
  IF results = <<>> THEN MetricsCollector_new
  ELSE add_result(Replay(SubSeq(results, 1, Len(results) - 1)),
                  results[Len(results)])

OutcomeSamples ==
  {RequestResult(ScenarioA, status, elapsed) :
     status \in Statuses, elapsed \in 1..MaxElapsed}

\* The collectors run_load_test hands back in these runs: up to MaxResults
\* samples of one scenario, and one sample that took 0.3 s.
OutcomeCollectors ==
  {Replay(results) :
     results \in UNION {[1..n -> OutcomeSamples] : n \in 0..MaxResults}}
  \cup {Replay(<<RequestResult(ScenarioA, 200, MaxElapsed + 1)>>)}

Threshold(metric, expression, abort_on_fail) ==
  [metric |-> metric, expression |-> expression,
   abort_on_fail |-> abort_on_fail]

ThresholdGroups == {"response_time", "success"}

ThresholdStats == {"avg", "max", "count"}

Operators == {"<", "<=", ">", ">=", "==", "!="}

\* The literals of the thresholds, each with the fraction it denotes.
ThresholdValues ==
  {[text |-> "0.15", num |-> 15, den |-> 100],
   [text |-> "0.1", num |-> 1, den |-> 10],
   [text |-> "0.2", num |-> 2, den |-> 10],
   [text |-> "0.5", num |-> 5, den |-> 10],
   [text |-> "1", num |-> 1, den |-> 1]}

WellFormedThresholds ==
  {Threshold(g \o "." \o st, op \o " " \o c.text, FALSE) :
     g \in ThresholdGroups, st \in ThresholdStats,
     op \in Operators, c \in ThresholdValues}

\* Thresholds that name nothing in the summary, or whose path is not
\* `group.stat`.
UnresolvedThresholds ==
  {Threshold(m, "< 0.5", b) :
     m \in {"latency.avg", "response_time.median", "response_time",
            "response_time.avg.max", "", "total_requests.avg"},
     b \in BOOLEAN}

\* Thresholds whose expression is not an operator followed by a number.
UnreadableThresholds ==
  {Threshold("response_time.avg", e, b) :
     e \in {"", "<0.5", "< 0.5 s", "=< 0.5", "lt 0.5", "< abc", "< 0.5ms",
            "< 1,5", "< ."},
     b \in BOOLEAN}

MalformedThresholds == UnresolvedThresholds \cup UnreadableThresholds

\* Paths `group.stat` to entries of the summary that are objects when they
\* exist: the rollup of a scenario, the series of a tag.
ObjectPaths ==
  {[group |-> "scenarios", stat |-> "a"],
   [group |-> "scenarios", stat |-> "b"],
   [group |-> "by_tag", stat |-> "scenario:a"],
   [group |-> "by_tag", stat |-> "status:200"]}

\* Literals to compare with, zero among them.
ObjectThresholdValues ==
  {[text |-> "0", num |-> 0, den |-> 1],
   [text |-> "0.5", num |-> 5, den |-> 10]}

ObjectThresholds ==
  {Threshold(path.group \o "." \o path.stat, op \o " " \o c.text, FALSE) :
     path \in ObjectPaths, op \in Operators, c \in ObjectThresholdValues}

\* Lists of several thresholds, failing ones with abort_on_fail among them.
MixedThresholdLists ==
  {<<>>,
   <<Threshold("response_time.avg", "< 0", TRUE)>>,
   <<Threshold("success.avg", ">= 1", TRUE),
     Threshold("response_time.max", "< 0.5", FALSE)>>,
   <<Threshold("response_time.avg", "< 0.5", FALSE),
     Threshold("latency.avg", "< 0.5", TRUE),
     Threshold("success.avg", "> 0.5", FALSE)>>,
   <<Threshold("response_time.avg", "lt 0.5", TRUE),
     Threshold("response_time.avg", "< 0", FALSE),
     Threshold("response_time.count", ">= 1", FALSE)>>}

SuccessThresholds == {50, 95, 100}

OutcomeConfig(thresholds, success_threshold) ==
  [load_profile |-> [profile_type |-> "constant_vus",
                     stages |-> <<[duration_secs |-> 1, target |-> 1]>>,
                     initial |-> 1],
   scenarios |-> <<ScenarioA>>,
   thresholds |-> thresholds,
   success_threshold |-> success_threshold,
   stream_metrics |-> FALSE,
   metrics_interval_secs |-> 10]

OutcomeConfigs ==
  {OutcomeConfig(Some(<<t>>), 95) :
     t \in WellFormedThresholds \cup MalformedThresholds
           \cup ObjectThresholds}
  \cup {OutcomeConfig(o, st) :
          o \in {None} \cup {Some(l) : l \in MixedThresholdLists},
          st \in SuccessThresholds}

\* run_load_test has returned a collector and run() has the rest to do; or
\* a longer run of one virtual user is about to collect its samples.
OutcomeInit ==
  /\ \/ /\ config \in OutcomeConfigs
        /\ final_metrics \in OutcomeCollectors
        /\ metrics = final_metrics
        /\ pc = "finished"
        /\ result = "ok"
     \/ /\ config \in {OutcomeConfig(None, st) : st \in {50, 58}}
        /\ final_metrics = MetricsCollector_new
        /\ metrics = MetricsCollector_new
        /\ pc = "collecting"
        /\ result = "none"
  /\ now = 0
  /\ current_stage = 0
  /\ stage_start_time = 0
  /\ current_vus = 0
  /\ target_vus = 0
  /\ stage_elapsed = 0
  /\ new_vus = 0
  /\ permits = 0
  /\ to_spawn = 0
  /\ tasks = EmptyBag
  /\ spawned = 0
  /\ max_target = 0
  /\ server = Statuses
  /\ streamed = 0
  /\ next_tick = 0
  /\ outcome = NoOutcome
  /\ selection = NoSelection

\* run() from the summary to Ok(TestResult)
RunReturn ==
  /\ pc = "finished"
  /\ result = "ok"
  /\ outcome.returned = "none"
  /\ outcome' = TestResult(final_metrics, config)
  /\ UNCHANGED <<server, streamed, next_tick, selection>>
  /\ UNCHANGED <<config, pc, result, now, current_stage, stage_start_time,
                 current_vus, target_vus, stage_elapsed, new_vus, permits,
                 to_spawn, tasks, metrics, final_metrics, spawned, max_target>>

\* metrics.lock().unwrap().add_result(result) of the next iteration of the
\* longer run: 50 requests one after the other, to a target that answers the
\* first 29 with 200 and the others with 500, each in a tenth of a second.
SequentialSample ==
  /\ pc = "collecting"
  /\ config.success_threshold \in {50, 58}
  /\ Len(metrics.results) < 50
  /\ metrics' = add_result(
                  metrics,
                  RequestResult(ScenarioA,
                                IF Len(metrics.results) < 29 THEN 200 ELSE 500,
                                1))
  /\ UNCHANGED run_vars
  /\ UNCHANGED <<config, pc, result, now, current_stage, stage_start_time,
                 current_vus, target_vus, stage_elapsed, new_vus, permits,
                 to_spawn, tasks, final_metrics, spawned, max_target>>

\* The longer run is over: run_load_test returns the clone of its collector.
SequentialReturn ==
  /\ pc = "collecting"
  /\ config.success_threshold \in {50, 58}
  /\ Len(metrics.results) = 50
  /\ final_metrics' = metrics
  /\ result' = "ok"
  /\ pc' = "finished"
  /\ UNCHANGED run_vars
  /\ UNCHANGED <<config, now, current_stage, stage_start_time, current_vus,
                 target_vus, stage_elapsed, new_vus, permits, to_spawn, tasks,
                 metrics, spawned, max_target>>

OutcomeNext == RunReturn \/ SequentialSample \/ SequentialReturn

SpecOutcome == OutcomeInit /\ [][OutcomeNext]_vars

\* ------------------------------------------------------------ a whole run
\* run() of one scenario of weight 1 under a constant_vus profile of a single
\* stage (1 s, target 5), `initial` left at its default, against a target
\* that answers every request with the same status; metrics are streamed or
\* not, every second or every 10 seconds.
RunConfigs ==
  [load_profile : {[profile_type |-> "constant_vus",
                    stages |-> <<[duration_secs |-> 1, target |-> 5]>>,
                    initial |-> 1]},
   scenarios : {<<ScenarioA>>},
   thresholds : {None},
   success_threshold : {95},
   stream_metrics : BOOLEAN,
   metrics_interval_secs : {1, 10}]

RunInit ==
  /\ config \in RunConfigs
  /\ server \in {{200}, {500}}
  /\ pc = "start"
  /\ result = "none"
  /\ now = 0
  /\ current_stage = 0
  /\ stage_start_time = 0
  /\ current_vus = 0
  /\ target_vus = 0
  /\ stage_elapsed = 0
  /\ new_vus = 0
  /\ permits = 0
  /\ to_spawn = 0
  /\ tasks = EmptyBag
  /\ metrics = MetricsCollector_new
  /\ final_metrics = MetricsCollector_new
  /\ spawned = 0
  /\ max_target = 0
  /\ streamed = 0
  /\ next_tick = 0
  /\ outcome = NoOutcome
  /\ selection = NoSelection

\* One turn of the loop of the task run_load_test spawns `if stream_metrics`:
\* interval.tick() (the first tick is immediate), then get_metrics_summary
\* under the lock of the shared collector, and the summary printed.  The
\* task is never stopped; it is followed here until run() returns.
StreamSummary ==
  /\ config.stream_metrics
  /\ outcome.returned = "none"
  /\ now >= next_tick
  /\ Evaluated(get_metrics_summary(metrics))
  /\ streamed' = streamed + 1
  /\ next_tick' = next_tick + config.metrics_interval_secs
  /\ UNCHANGED <<server, outcome, selection>>
  /\ UNCHANGED <<config, pc, result, now, current_stage, stage_start_time,
                 current_vus, target_vus, stage_elapsed, new_vus, permits,
                 to_spawn, tasks, metrics, final_metrics, spawned, max_target>>

RunNext ==
  \/ StartConstantVus
  \/ LoopBreak
  \/ ConstantStageSwitch
  \/ ConstantDispatch
  \/ AcquireAndSpawn
  \/ Sleep
  \/ Tick
  \/ TaskSend
  \/ TaskResponse
  \/ StreamSummary
  \/ RunReturn

SpecRun == RunInit /\ [][RunNext]_vars

\* ------------------------------------------------ a run while time passes
\* run_load_test of either algorithm for any stage list, one valid scenario
\* and a target that answers, fails or leaves a request pending for good.
LiveConfigs ==
  [load_profile : [profile_type : {"constant_vus", "ramping_vus"},
                   stages : StageLists,
                   initial : 0..MaxVus],
   scenarios : {<<ScenarioA>>, <<ScenarioA, ScenarioBad>>, <<>>},
   thresholds : {None},
   success_threshold : {95},
   stream_metrics : {FALSE},
   metrics_interval_secs : {10}]

LiveInit ==
  /\ config \in LiveConfigs
  /\ server = {200, NoAnswer}
  /\ pc = "start"
  /\ result = "none"
  /\ now = 0
  /\ current_stage = 0
  /\ stage_start_time = 0
  /\ current_vus = 0
  /\ target_vus = 0
  /\ stage_elapsed = 0
  /\ new_vus = 0
  /\ permits = 0
  /\ to_spawn = 0
  /\ tasks = EmptyBag
  /\ metrics = MetricsCollector_new
  /\ final_metrics = MetricsCollector_new
  /\ spawned = 0
  /\ max_target = 0
  /\ streamed = 0
  /\ next_tick = 0
  /\ outcome = NoOutcome
  /\ selection = NoSelection

\* The steps of the control loop, which is one task of the runtime.
ControlLoop ==
  \/ RejectEmptyStages
  \/ StartConstantVus
  \/ StartRampingVus
  \/ LoopBreak
  \/ ConstantStageSwitch
  \/ ConstantDispatch
  \/ RampingStageSwitch
  \/ RampingDispatch
  \/ AcquireAndSpawn
  \/ Sleep

\* The steps of the spawned iterations.
Iterations ==
  \/ TaskPanic
  \/ TaskInvalidMethod
  \/ TaskSend
  \/ TaskResponse
  \/ TaskTransportError

LiveNext == ControlLoop \/ Tick \/ Iterations

\* Time advances and the runtime keeps running the control loop whenever it
\* can take a step; nothing is assumed of the iterations, whose requests may
\* stay pending for good.
SpecLive ==
  LiveInit /\ [][LiveNext]_vars /\ WF_vars(Tick) /\ WF_vars(ControlLoop)

\* ------------------------------------------------- run(), whatever happens
\* run() of either algorithm with or without stages, with no scenario, a
\* scenario whose method does not parse or valid ones, with thresholds that
\* cannot be resolved or read, against a target that answers 200, answers 500
\* or does not answer.
OrchestratorThresholds ==
  {None,
   Some(<<Threshold("response_time.avg", "< 0.5", TRUE)>>),
   Some(<<Threshold("latency.avg", "< 0.5", TRUE)>>),
   Some(<<Threshold("response_time", "< 0.5", TRUE)>>),
   Some(<<Threshold("response_time.avg", "< abc", TRUE),
          Threshold("response_time.avg", "=< 0.5", FALSE)>>)}

OrchestratorConfigs ==
  [load_profile : [profile_type : {"constant_vus", "ramping_vus"},
                   stages : {<<>>, <<[duration_secs |-> 1, target |-> 1]>>},
                   initial : {1}],
   scenarios : ScenarioLists,
   thresholds : OrchestratorThresholds,
   success_threshold : {95},
   stream_metrics : {FALSE},
   metrics_interval_secs : {10}]

OrchestratorInit ==
  /\ config \in OrchestratorConfigs
  /\ server \in {{200}, {500}, {NoAnswer}}
  /\ pc = "start"
  /\ result = "none"
  /\ now = 0
  /\ current_stage = 0
  /\ stage_start_time = 0
  /\ current_vus = 0
  /\ target_vus = 0
  /\ stage_elapsed = 0
  /\ new_vus = 0
  /\ permits = 0
  /\ to_spawn = 0
  /\ tasks = EmptyBag
  /\ metrics = MetricsCollector_new
  /\ final_metrics = MetricsCollector_new
  /\ spawned = 0
  /\ max_target = 0
  /\ streamed = 0
  /\ next_tick = 0
  /\ outcome = NoOutcome
  /\ selection = NoSelection

\* `self.run_load_test(&config).await?` on Err: run() returns the error.
RunError ==
  /\ pc = "finished"
  /\ result # "ok"
  /\ outcome.returned = "none"
  /\ outcome' = [NoOutcome EXCEPT !.returned = result]
  /\ UNCHANGED <<server, streamed, next_tick, selection>>
  /\ UNCHANGED <<config, pc, result, now, current_stage, stage_start_time,
                 current_vus, target_vus, stage_elapsed, new_vus, permits,
                 to_spawn, tasks, metrics, final_metrics, spawned, max_target>>

OrchestratorNext == Next \/ RunReturn \/ RunError

SpecOrchestrator == OrchestratorInit /\ [][OrchestratorNext]_vars

\* ------------------------------------------------------------- properties
InLoop == pc \in {"loop", "spawn", "sleep"}

HasInvalidMethod ==
  \E i \in 1..Len(scenarios) : ~method_from_bytes_ok(scenarios[i].method)

\* The scenario list is one every iteration can run.
ValidScenarios == scenarios # <<>> /\ ~HasInvalidMethod

RECURSIVE SetMax(_)
SetMax(S) ==
  IF S = {} THEN 0
  ELSE LET x == CHOOSE y \in S : TRUE
       IN Max(x, SetMax(S \ {x}))

\* `initial` and the targets of the stages entered so far.
EnteredTargets ==
  {config.load_profile.initial}
  \cup {stages[i].target :
          i \in 1..(IF current_stage + 1 <= Len(stages)
                      THEN current_stage + 1 ELSE Len(stages))}

\* C1: in a ConstantVUs run the capacity of the gate (free permits plus
\* permits held by iterations in flight), and so the number of iterations in
\* flight, never exceeds the largest target set so far (`initial` or the
\* target of a stage already entered).
C1_ConstantCapacityBounded ==
  (IsConstant /\ ValidScenarios /\ pc # "start"
   /\ result # "validation_error")
    => /\ Capacity <= SetMax(EnteredTargets)
       /\ InFlight <= SetMax(EnteredTargets)

\* C2: in a RampingVUs run the capacity of the gate never exceeds the largest
\* interpolated target computed so far (or `initial` if larger).
C2_RampingCapacityBounded ==
  (IsRamping /\ ValidScenarios /\ pc # "start"
   /\ result # "validation_error")
    => Capacity <= max_target

\* C3: when run_load_test takes its snapshot of the collector no iteration
\* is in flight, and the snapshot holds every sample the run records.
C3_SnapshotDrained ==
  (ValidScenarios /\ result = "ok")
    => /\ InFlight = 0
       /\ final_metrics.results = metrics.results

\* C4: in the step model the target during stage i, the first included, is
\* stages[i].target.
C4_StepTargetIsStageTarget ==
  (IsConstant /\ ValidScenarios /\ InLoop /\ current_stage < Len(stages))
    => current_vus = stages[current_stage + 1].target

\* The level stage i (from 0) of a ramp starts from.
StartLevel(i) ==
  IF i = 0 THEN config.load_profile.initial ELSE stages[i].target

\* n is x / d rounded to the nearest whole number, halves upwards (x, d
\* naturals, d > 0).
IsNearest(n, x, d) == 2 * n * d - d <= 2 * x /\ 2 * x < 2 * n * d + d

TargetDropped ==
  IF IsRamping
    THEN pc \in {"spawn", "sleep"} /\ new_vus < current_vus
    ELSE /\ current_stage >= 1
         /\ current_vus < (IF current_stage = 1
                             THEN config.load_profile.initial
                             ELSE stages[current_stage].target)

\* C6: after the target has dropped, once the iterations dispatched before
\* the drop have completed (every iteration in flight was dispatched in this
\* stage at the present target), at most `target` iterations are in flight.
C6_ShrinksByAttrition ==
  (/\ ValidScenarios
   /\ InLoop
   /\ current_stage < Len(stages)
   /\ TargetDropped
   /\ \A t \in BagToSet(tasks) : t.stage = current_stage /\ t.vus = Target)
    => InFlight <= Target

\* C7: a run with an empty stage list, of whatever profile type, ends with a
\* validation error; it acquires no permit, spawns no iteration and records
\* nothing.
C7_EmptyStagesRejected ==
  stages = <<>>
    => /\ pc = "start" \/ (pc = "finished" /\ result = "validation_error")
       /\ spawned = 0
       /\ tasks = EmptyBag
       /\ permits = 0
       /\ metrics = MetricsCollector_new

C7_Witness ==
  /\ stages = <<>>
  /\ config.load_profile.profile_type = "constant_arrival_rate"
  /\ result = "validation_error"

\* C8: a run with an empty scenario list is rejected before it starts: no
\* iteration is spawned and the run does not return normally.
C8_EmptyScenariosRejected ==
  scenarios = <<>> => (spawned = 0 /\ result # "ok")

\* C9: a scenario with an invalid HTTP method fails the run before any
\* request is issued: no request is ever in flight or recorded, and a run
\* that spawned iterations never returns normally.
C9_InvalidMethodRejected ==
  HasInvalidMethod
    => /\ \A t \in BagToSet(tasks) : t.phase # "awaiting"
       /\ metrics.results = <<>>
       /\ ~(result = "ok" /\ spawned > 0)

Count(series, name) == IF name \in DOMAIN series THEN Len(series[name]) ELSE 0

Carrying(tag) ==
  Cardinality({i \in 1..Len(metrics.results) : tag \in TagKeys(metrics.results[i])})

\* C10: after N samples have been added, the global response_time and
\* success series hold N values each, and each per-tag response_time and
\* success series holds one value per sample carrying the tag.
C10_OneValuePerSample ==
  LET N == Len(metrics.results)
  IN /\ Count(metrics.metrics, "response_time") = N
     /\ Count(metrics.metrics, "success") = N
     /\ \A tag \in DOMAIN metrics.metrics_by_tag :
          /\ Count(metrics.metrics_by_tag[tag], "response_time") = Carrying(tag)
          /\ Count(metrics.metrics_by_tag[tag], "success") = Carrying(tag)

\* The statistics of a global series
SeriesStats == {"count", "avg", "min", "max", "p50", "p90", "p95", "p99"}

\* C11: the summary of a collector that has received no sample reports 0
\* for every statistic of the "response_time" and "success" series: each can
\* be looked up in the summary and has value 0.
C11_EmptySummaryAllZero ==
  metrics.results = <<>>
    => LET summary == get_metrics_summary(metrics)
       IN \A name \in {"response_time", "success"}, stat \in SeriesStats :
            /\ json_has(summary, name)
            /\ json_has(json_get(summary, name), stat)
            /\ as_f64_or_zero(json_get(json_get(summary, name), stat)) = F64Zero

\* x <= y
F64LessEq(x, y) == ~F64Less(y, x)

IsAscending(values) ==
  \A i \in 1..(Len(values) - 1) : F64LessEq(values[i], values[i + 1])

Occurrences(values, x) == Cardinality({i \in 1..Len(values) : values[i] = x})

\* `sorted_values` holds the values of `values`, each as often
IsRearranged(sorted_values, values) ==
  /\ Len(sorted_values) = Len(values)
  /\ \A i \in 1..Len(values) :
       Occurrences(sorted_values, values[i]) = Occurrences(values, values[i])

\* The statistic `stat` the summary reports for the global series `name`
Reported(mc, name, stat) ==
  as_f64_or_zero(json_get(json_get(get_metrics_summary(mc), name), stat))

\* C12: for every non-empty series of n values the percentile pN (N in 50,
\* 90, 95, 99) the summary reports is the element at index
\* round(N/100 * (n-1)) of the series sorted ascending, and the index lies in
\* 0..n-1; so min <= p50 <= p90 <= p95 <= p99 <= max, and every percentile
\* of a constant series is its value.
C12_PercentileNearestRank ==
  \A name \in DOMAIN metrics.metrics :
    LET values == metrics.metrics[name]
        n == Len(values)
        sorted_values == sort_by_partial_cmp(values)
        p50 == Reported(metrics, name, "p50")
        p90 == Reported(metrics, name, "p90")
        p95 == Reported(metrics, name, "p95")
        p99 == Reported(metrics, name, "p99")
        P(N) == CASE N = 50 -> p50 [] N = 90 -> p90 [] N = 95 -> p95
                  [] OTHER -> p99
    IN n > 0 =>
         /\ IsAscending(sorted_values)
         /\ IsRearranged(sorted_values, values)
         /\ \A N \in {50, 90, 95, 99} :
              LET index == percentile_index(n, N)
              IN /\ index \in 0..(n - 1)
                 /\ IsNearest(index, N * (n - 1), 100)
                 /\ P(N) = sorted_values[index + 1]
         /\ F64LessEq(Reported(metrics, name, "min"), p50)
         /\ F64LessEq(p50, p90)
         /\ F64LessEq(p90, p95)
         /\ F64LessEq(p95, p99)
         /\ F64LessEq(p99, Reported(metrics, name, "max"))
         /\ (\A i \in 1..n : values[i] = values[1])
              => \A N \in {50, 90, 95, 99} : P(N) = values[1]

\* A series of six values whose median is below its 90th percentile (the
\* index of p90 is the tie 4.5, rounded to 5).
C12_Witness ==
  /\ "response_time" \in DOMAIN metrics.metrics
  /\ Len(metrics.metrics["response_time"]) = 6
  /\ percentile_index(6, 90) = 5
  /\ F64Less(Reported(metrics, "response_time", "p50"),
             Reported(metrics, "response_time", "p90"))

\* Weight of the first i scenarios
CumulativeWeight(scs, i) == SumWeights(SubSeq(scs, 1, i))

\* C13: for every list of scenarios with weights >= 1 and every draw d in
\* [0, total_weight) the scenario selected is the first whose cumulative
\* weight exceeds d; so exactly weight_i of the draws select scenario i, the
\* fallback is never taken, and a list of one scenario returns it whatever
\* the draw.
C13_FirstCumulativeAboveDraw ==
  LET total_weight == SumWeights(scenarios)
      Draws == 0..(total_weight - 1)
  IN /\ selection.index # 0
          => /\ selection.random_value \in Draws
             /\ selection.index \in 1..Len(scenarios)
             /\ CumulativeWeight(scenarios, selection.index)
                  > selection.random_value
             /\ \A j \in 1..(selection.index - 1) :
                  CumulativeWeight(scenarios, j) <= selection.random_value
     /\ \A i \in 1..Len(scenarios) :
          Cardinality({d \in Draws :
                         select_weighted_scenario(scenarios, d) = i})
            = scenarios[i].weight
     /\ Len(scenarios) > 1
          => \A d \in Draws : WalkWeights(scenarios, d, 1, 0) # 0
     /\ Len(scenarios) = 1
          => \A d \in 0..MaxWeight : select_weighted_scenario(scenarios, d) = 1

\* The draw that equals the weight of the first of three scenarios picks
\* the second.
C13_Witness ==
  /\ Len(scenarios) = 3
  /\ scenarios[1].weight = 2
  /\ scenarios[2].weight = 1
  /\ selection.random_value = 2
  /\ selection.index = 2

\* The thresholds of the configuration, None as no threshold
ConfiguredThresholds ==
  IF config.thresholds = None THEN <<>> ELSE config.thresholds[1]

\* -1, 0 or 1 as x is below, equal to or above y
F64Compare(x, y) == IF F64Less(x, y) THEN -1 ELSE IF F64Less(y, x) THEN 1 ELSE 0

\* `v op c` with every operator an exact comparison
Compares(op, v, c) ==
  LET d == F64Compare(v, c)
  IN CASE op = "<" -> d = -1
       [] op = "<=" -> d <= 0
       [] op = ">" -> d = 1
       [] op = ">=" -> d >= 0
       [] op = "==" -> d = 0
       [] op = "!=" -> d # 0

\* `v op c` with == and != deciding whether |v - c| is below f64::EPSILON
ComparesWithinEpsilon(op, v, c) ==
  CASE op = "==" -> F64AbsDiffBelowEpsilon(v, c)
    [] op = "!=" -> ~F64AbsDiffBelowEpsilon(v, c)
    [] OTHER -> Compares(op, v, c)

\* The f64 a literal of ThresholdValues denotes
ValueOf(c) == F64DivInt(F64FromInt(c.num), c.den)

\* The returned summary has the statistic `st` of the series `g`
Resolves(g, st) ==
  /\ json_has(outcome.metrics, g)
  /\ json_has(json_get(outcome.metrics, g), st)

ResolvedValue(g, st) ==
  as_f64_or_zero(json_get(json_get(outcome.metrics, g), st))

\* C14 (as stated): a threshold `group.stat` with expression `op c`, op one
\* of < <= > >= == != and c a number, whose metric resolves to the value v
\* in the summary, passes exactly when `v op c` holds, == being equality.
C14_PassesIffComparison ==
  outcome.returned = "ok" =>
    \A i \in 1..Len(ConfiguredThresholds) :
      \A g \in ThresholdGroups, st \in ThresholdStats,
         op \in Operators, c \in ThresholdValues :
        ( /\ ConfiguredThresholds[i].metric = g \o "." \o st
          /\ ConfiguredThresholds[i].expression = op \o " " \o c.text
          /\ Resolves(g, st) )
        => ( outcome.thresholds[i].passed
               <=> Compares(op, ResolvedValue(g, st), ValueOf(c)) )

\* C14 (amended): such a threshold passes exactly when `v op c` holds, where
\* < <= > >= compare exactly, == holds when |v - c| < f64::EPSILON and != when
\* |v - c| >= f64::EPSILON; so == and != are complements of each other, and
\* a value of 0.3 passes "< 0.5" and fails "< 0.2".
C14_PassesIffComparisonWithinEpsilon ==
  outcome.returned = "ok" =>
    /\ \A i \in 1..Len(ConfiguredThresholds) :
         \A g \in ThresholdGroups, st \in ThresholdStats,
            op \in Operators, c \in ThresholdValues :
           ( /\ ConfiguredThresholds[i].metric = g \o "." \o st
             /\ ConfiguredThresholds[i].expression = op \o " " \o c.text
             /\ Resolves(g, st) )
           => ( outcome.thresholds[i].passed
                  <=> ComparesWithinEpsilon(op, ResolvedValue(g, st),
                                            ValueOf(c)) )
    /\ \A i \in 1..Len(ConfiguredThresholds) :
         \A g \in ThresholdGroups, st \in ThresholdStats, c \in ThresholdValues :
           ( /\ ConfiguredThresholds[i].metric = g \o "." \o st
             /\ ConfiguredThresholds[i].expression = "== " \o c.text
             /\ Resolves(g, st) )
           => ( outcome.thresholds[i].passed
                  <=> ~evaluate_threshold(
                         outcome.metrics,
                         Threshold(g \o "." \o st, "!= " \o c.text, FALSE)) )
    /\ ( /\ Resolves("response_time", "avg")
         /\ ResolvedValue("response_time", "avg") = as_secs_f64[3] )
       => /\ evaluate_threshold(outcome.metrics,
                                Threshold("response_time.avg", "< 0.5", FALSE))
          /\ ~evaluate_threshold(outcome.metrics,
                                 Threshold("response_time.avg", "< 0.2", FALSE))

\* A run whose average response time is next to, but not, 0.15 has passed
\* "response_time.avg == 0.15".
C14_Witness ==
  /\ outcome.returned = "ok"
  /\ ConfiguredThresholds
       = <<Threshold("response_time.avg", "== 0.15", FALSE)>>
  /\ outcome.thresholds[1].passed
  /\ Resolves("response_time", "avg")
  /\ ResolvedValue("response_time", "avg") # ValueOf([num |-> 15, den |-> 100])

C16_StatusIffRateReachesThreshold ==
  outcome.returned = "ok" =>
    LET total_requests == Len(final_metrics.results)
        success_count ==
          Cardinality({i \in 1..total_requests :
                         final_metrics.results[i].success})
        reached ==
          IF total_requests > 0
            THEN 100 * success_count >= config.success_threshold * total_requests
            ELSE 0 >= config.success_threshold
    IN outcome.status = IF reached THEN "passed" ELSE "failed"

\* The number the returned summary holds under `key`
ReturnedCount(key) == json_get(outcome.metrics, key).u64

\* C17: a run of one scenario of weight 1 under a constant_vus profile of one
\* stage (1 s, target 5) with success_threshold 95 that has sent requests,
\* however their completions fall between the steps of the scheduler: if the
\* target answers 200 to every request the outcome is "passed" and counts as
\* many successes as requests; if it answers 500 to every request the
\* outcome is "failed" and counts no success.
C17_EndToEndStatus ==
  (outcome.returned = "ok" /\ spawned > 0) =>
    /\ server = {200} =>
         /\ outcome.status = "passed"
         /\ ReturnedCount("success_count") = ReturnedCount("total_requests")
    /\ server = {500} =>
         /\ outcome.status = "failed"
         /\ ReturnedCount("success_count") = 0

\* The scheduler is dispatching, or an iteration is left that can write a
\* sample.
WritersActive == pc \in {"loop", "spawn", "sleep"} \/ tasks # EmptyBag

\* C19: no summary of the collector is computed, by the streaming task or by
\* run(), while the scheduler is still dispatching or while an iteration can
\* still write a sample, with or without stream_metrics.
C19_NoSummaryWhileWritersActive ==
  [][(streamed' # streamed \/ outcome'.returned # outcome.returned)
       => ~WritersActive]_vars

\* The collector that received the samples of `mc` in the order p
Reordered(mc, p) == Replay([i \in 1..Len(mc.results) |-> mc.results[p[i]]])

\* C18: the summary depends on the samples added and not on their order:
\* adding the same samples in any other order gives the same totals, the same
\* statistics of every series, the same statistics by tag and the same
\* roll-up by scenario.
C18_SummaryOrderIndependent ==
  \A p \in Permutations(1..Len(metrics.results)) :
    get_metrics_summary(Reordered(metrics, p)) = get_metrics_summary(metrics)

\* A step as run_constant_vus takes it: it starts with `initial` permits,
\* dispatches as many iterations as permits are free without touching the
\* gate, enters a stage by topping the free permits up to its target, and has
\* no target or interpolation of its own.
ConstantVusStep ==
  /\ target_vus' = target_vus
  /\ new_vus' = new_vus
  /\ (pc = "start" /\ pc' = "loop") =>
       /\ current_vus' = config.load_profile.initial
       /\ permits' = config.load_profile.initial
  /\ (pc = "loop" /\ pc' \in {"spawn", "sleep"}) =>
       /\ to_spawn' = permits
       /\ permits' = permits
  /\ (current_stage' # current_stage /\ current_stage' < Len(stages)) =>
       /\ current_vus' = stages[current_stage' + 1].target
       /\ permits' = permits + Max(current_vus' - permits, 0)

\* A step as run_ramping_vus takes it: it starts with `initial` permits and
\* the target of the first stage, dispatches after raising the gate to the
\* rounded interpolation between the level before the stage and its target,
\* and enters a stage by taking the old target as the level to ramp from.
RampingVusStep ==
  /\ (pc = "start" /\ pc' = "loop") =>
       /\ current_vus' = config.load_profile.initial
       /\ permits' = config.load_profile.initial
       /\ target_vus' = stages[1].target
  /\ (pc = "loop" /\ pc' \in {"spawn", "sleep"}) =>
       LET vus == round_div(
                    current_vus * stages[current_stage + 1].duration_secs
                    + (target_vus - current_vus) * (now - stage_start_time),
                    stages[current_stage + 1].duration_secs)
           held == saturating_sub(current_vus, permits)
       IN /\ new_vus' = vus
          /\ permits' = Max(permits, vus - held)
          /\ to_spawn' = permits'
  /\ (current_stage' # current_stage /\ current_stage' < Len(stages)) =>
       /\ current_vus' = target_vus
       /\ target_vus' = stages[current_stage' + 1].target
       /\ permits' = permits

\* C20: a constant_arrival_rate run takes the scheduler steps of a
\* constant_vus run, and a ramping_arrival_rate run and a spike run take those
\* of a ramping_vus run: for any stages, `initial` and completions the
\* stage index, the gate and the dispatches change as in the algorithm each
\* type hands over to, and in no other way.
C20_AliasesRunTheVuAlgorithms ==
  [][/\ config.load_profile.profile_type
          \in {"constant_vus", "constant_arrival_rate"} => ConstantVusStep
     /\ config.load_profile.profile_type
          \in {"ramping_vus", "ramping_arrival_rate", "spike"} => RampingVusStep
    ]_vars

\* A spike run has raised its gate to an interpolated level and is spawning.
C20_Witness ==
  /\ config.load_profile.profile_type = "spike"
  /\ pc = "spawn"
  /\ new_vus > 0
  /\ spawned > 0

\* C21: an iteration whose request fails in transport leaves the collector
\* as it was (results, every series, every per-tag bucket), gives its permit
\* back, and does not touch the control loop or what the run returns; no run
\* ends with an error other than the one for an empty stage list.
C21_TransportFailureLeavesNoSample ==
  /\ [][TaskTransportError =>
          /\ metrics' = metrics
          /\ permits' = permits + 1
          /\ InFlight' = InFlight - 1
          /\ pc' = pc
          /\ result' = result
          /\ final_metrics' = final_metrics]_vars
  /\ [](result \in {"none", "ok"} \/ stages = <<>>)

\* The iterations of a run of valid scenarios have ended, the run has
\* returned Ok, and no sample was recorded: each request failed in transport.
C21_Witness ==
  /\ ValidScenarios
  /\ spawned > 0
  /\ tasks = EmptyBag
  /\ metrics.results = <<>>
  /\ result = "ok"

\* Number of the samples added whose status is 2xx.
Added2xx ==
  Cardinality({i \in 1..Len(metrics.results) :
                 metrics.results[i].status \in 200..299})

\* C22: every sample execute_scenario builds has success set exactly when
\* its status is from 200 to 299, and in the summary success_count is the
\* number of added samples of such a status and error_count the number of
\* all the others.
C22_SuccessIff2xx ==
  /\ \A i \in 1..Len(metrics.results) :
       metrics.results[i].success <=> metrics.results[i].status \in 200..299
  /\ \E summary \in {get_metrics_summary(metrics)} :
       /\ json_get(summary, "success_count").u64 = Added2xx
       /\ json_get(summary, "error_count").u64
            = Len(metrics.results) - Added2xx

\* Samples of the statuses 199, 299 and 300 have been added.
C22_Witness ==
  /\ \E i \in 1..Len(metrics.results) : metrics.results[i].status = 299
  /\ \E i \in 1..Len(metrics.results) : metrics.results[i].status = 300
  /\ \E i \in 1..Len(metrics.results) : metrics.results[i].status = 199

\* C23: for a configuration whose stage list is not empty run_load_test
\* returns Ok and run() returns a TestResult, whatever the requests did and
\* whatever the thresholds are; run() returns an error only for an empty
\* stage list.
C23_OutcomeUnlessEmptyStages ==
  /\ stages # <<>> => /\ result \in {"none", "ok"}
                      /\ outcome.returned \in {"none", "ok"}
  /\ outcome.returned \notin {"none", "ok"} =>
       /\ stages = <<>>
       /\ outcome.returned = "validation_error"
       /\ spawned = 0

\* run() has returned a TestResult for a run that recorded no sample though
\* it spawned iterations, with a threshold that could not be evaluated.
C23_Witness ==
  /\ outcome.returned = "ok"
  /\ spawned > 0
  /\ json_get(outcome.metrics, "total_requests").u64 = 0
  /\ config.thresholds # None
  /\ ~outcome.thresholds[1].passed
  /\ outcome.status = "failed"

RECURSIVE SumDurations(_)
SumDurations(stage_list) ==
  IF stage_list = <<>> THEN 0
  ELSE Head(stage_list).duration_secs + SumDurations(Tail(stage_list))

\* The model spawns no more than MaxSpawned iterations in a run.
SpawnCapReached == pc = "spawn" /\ spawned = MaxSpawned

\* C24: while time advances a run with stages terminates, whatever its
\* iterations do: the loop goes from a stage to the next one only, and only
\* when the duration of the stage it is in has elapsed; it takes no decision
\* to dispatch and spawns nothing once the last stage is over; and it returns
\* Ok, after all stages and no sooner than the sum of their durations.
C24_RunTerminates ==
  /\ [][/\ current_stage' # current_stage =>
             /\ current_stage' = current_stage + 1
             /\ current_stage < Len(stages)
             /\ now - stage_start_time >= stages[current_stage + 1].duration_secs
        /\ (pc = "loop" /\ pc' \in {"spawn", "sleep"}) =>
             /\ current_stage < Len(stages)
             /\ now - stage_start_time < stages[current_stage + 1].duration_secs
        /\ spawned' # spawned => current_stage < Len(stages)]_vars
  /\ [](pc = "finished" /\ result = "ok" =>
          /\ current_stage = Len(stages)
          /\ now >= SumDurations(stages))
  /\ (stages # <<>> => <>((pc = "finished" /\ result = "ok") \/ SpawnCapReached))

\* A run of two stages has returned Ok with an iteration still pending.
C24_Witness ==
  /\ pc = "finished"
  /\ result = "ok"
  /\ Len(stages) = 2
  /\ now = SumDurations(stages)
  /\ tasks # EmptyBag
  /\ spawned < MaxSpawned

\* C25: an iteration is spawned only by taking one free permit, an iteration
\* that ends, however it ends, gives exactly one permit back, and no step
\* starts or ends more than one iteration or takes a free permit without
\* spawning: the iterations in flight are the permits issued and not free.
C25_OnePermitPerIteration ==
  /\ [][/\ InFlight' \in {InFlight - 1, InFlight, InFlight + 1}
        /\ InFlight' = InFlight + 1 =>
             /\ permits > 0
             /\ permits' = permits - 1
             /\ spawned' = spawned + 1
        /\ InFlight' = InFlight - 1 =>
             /\ permits' = permits + 1
             /\ spawned' = spawned
        /\ InFlight' = InFlight =>
             /\ permits' >= permits
             /\ spawned' = spawned]_vars
  /\ [](permits >= 0 /\ InFlight <= spawned)

\* The iterations of a run without scenarios have panicked, one of a later
\* stage among them, and every permit is free again.
C25_Witness ==
  /\ scenarios = <<>>
  /\ spawned = MaxSpawned
  /\ tasks = EmptyBag
  /\ permits > 0
  /\ current_stage > 0

\* The level the scheduler holds before a step: the one its algorithm keeps,
\* and no more than the capacity of the gate.
NotAboveLevel(target) == target <= current_vus /\ target <= Capacity

\* C26: the capacity of the gate (free permits and permits held) never goes
\* down, and a stage switch or a ramp step to a target that is not above the
\* level held before it leaves the capacity as it is.
C26_CapacityGrowsOnlyAboveLevel ==
  [][/\ Capacity' >= Capacity
     /\ (/\ current_stage' # current_stage
         /\ current_stage' < Len(stages)
         /\ NotAboveLevel(stages[current_stage' + 1].target))
          => Capacity' = Capacity
     /\ (/\ IsRamping
         /\ pc = "loop"
         /\ pc' \in {"spawn", "sleep"}
         /\ NotAboveLevel(new_vus'))
          => Capacity' = Capacity]_vars

\* The scenario names that occur in a sample.
SampledScenarios == {metrics.results[i].scenario : i \in 1..Len(metrics.results)}

\* total_requests of the rollups of `names`, added up
RECURSIVE RollupTotal(_, _)
RollupTotal(rollups, names) ==
  IF names = {} THEN 0
  ELSE LET name == CHOOSE n \in names : TRUE
       IN json_get(json_get(rollups, name), "total_requests").u64
          + RollupTotal(rollups, names \ {name})

\* The counts of a rollup or of the summary agree with each other.
CountsAgree(entry) ==
  json_get(entry, "total_requests").u64
    = json_get(entry, "success_count").u64 + json_get(entry, "error_count").u64

\* The f64 that 100 * success_count / total_requests is.
RateOfCounts(entry) ==
  F64DivInt(F64FromInt(100 * json_get(entry, "success_count").u64),
            json_get(entry, "total_requests").u64)

\* C27: in the summary of any collector each scenario that occurs in a
\* sample has a rollup whose total_requests is success_count + error_count
\* and whose success_rate is 100 * success_count / total_requests; the
\* rollups' total_requests add up to the total_requests of the summary,
\* which is its success_count + error_count.
C27_RollupConsistent ==
  \E summary \in {get_metrics_summary(metrics)} :
    \E rollups \in {json_get(summary, "scenarios")} :
      /\ DOMAIN rollups.object = SampledScenarios
      /\ \A name \in SampledScenarios :
           \E rollup \in {json_get(rollups, name)} :
             /\ CountsAgree(rollup)
             /\ json_get(rollup, "success_rate").f64 = RateOfCounts(rollup)
      /\ RollupTotal(rollups, SampledScenarios)
           = json_get(summary, "total_requests").u64
      /\ CountsAgree(summary)

\* The scenario of the list a sample was built from (names are distinct).
ScenarioOf(sample) ==
  scenarios[CHOOSE i \in 1..Len(scenarios) : scenarios[i].name = sample.scenario]

\* The tag execute_scenario derives under a synthetic key.
SyntheticTag(k, scenario, status) ==
  CASE k = "scenario" -> scenario.name
    [] k = "method" -> scenario.method
    [] k = "status" -> status_to_string(status)

\* C28: a sample carries the tags its scenario declares, with the values
\* declared, and the synthetic tags scenario, method and status under the
\* keys the scenario does not declare; each tag has its bucket under
\* <key>:<value recorded>, and the sample's scenario field, by which the
\* rollup is keyed, is the scenario's name.
C28_UserTagsOverrideSynthetic ==
  /\ \A i \in 1..Len(metrics.results) :
       \E r \in {metrics.results[i]} :
         \E sc \in {ScenarioOf(r)} :
           /\ r.scenario = sc.name
           /\ DOMAIN r.tags = {"scenario", "method", "status"} \cup DOMAIN sc.tags
           /\ \A k \in DOMAIN r.tags :
                /\ r.tags[k] = IF k \in DOMAIN sc.tags THEN sc.tags[k]
                               ELSE SyntheticTag(k, sc, r.status)
                /\ (k \o ":" \o r.tags[k]) \in DOMAIN metrics.metrics_by_tag
  /\ DOMAIN metrics.metrics_by_tag
       = UNION {{k \o ":" \o metrics.results[i].tags[k] :
                   k \in DOMAIN metrics.results[i].tags} :
                i \in 1..Len(metrics.results)}
  /\ DOMAIN json_get(get_metrics_summary(metrics), "scenarios").object
       = {metrics.results[i].scenario : i \in 1..Len(metrics.results)}

\* Samples of the scenario that declares `scenario` and `status` tags have
\* been added, with different statuses.
C28_Witness ==
  \E i, j \in 1..Len(metrics.results) :
    /\ metrics.results[i].scenario = "o"
    /\ metrics.results[j].scenario = "o"
    /\ metrics.results[i].status # metrics.results[j].status
    /\ metrics.results[i].tags["scenario"] = "x"
    /\ "scenario:o" \notin DOMAIN metrics.metrics_by_tag

\* C29: while the control loop is in its spawn loop the free permits are at
\* least the acquisitions it still has to make, so acquire_owned() finds a
\* permit each time; the loop starts with as many acquisitions to make as
\* permits it observed free, makes them one by one and leaves the spawn loop
\* after the last; no other step takes a free permit.
C29_AcquisitionNeverWaits ==
  /\ [](pc = "spawn" => to_spawn > 0 /\ permits >= to_spawn)
  /\ [][/\ permits' < permits =>
             /\ pc = "spawn"
             /\ permits' = permits - 1
             /\ to_spawn' = to_spawn - 1
             /\ spawned' = spawned + 1
        /\ (pc = "loop" /\ pc' = "spawn") => to_spawn' = permits'
        /\ (pc = "loop" /\ pc' = "sleep") => permits' = 0
        /\ (pc = "spawn" /\ pc' = "spawn") =>
             \/ to_spawn' = to_spawn /\ spawned' = spawned /\ permits' >= permits
             \/ to_spawn' = to_spawn - 1 /\ spawned' = spawned + 1
        /\ (pc = "spawn" /\ pc' # "spawn") =>
             /\ pc' = "sleep"
             /\ to_spawn = 1
             /\ to_spawn' = 0
             /\ spawned' = spawned + 1]_vars

\* In the spawn loop of run_ramping_vus an iteration spawned in this tick has
\* completed, so that more permits are free than the loop still has to take.
C29_Witness ==
  /\ IsRamping
  /\ pc = "spawn"
  /\ spawned > 0
  /\ to_spawn > 0
  /\ permits > to_spawn
  /\ Len(metrics.results) > 0

\* What `0.0 op c` is for a literal c that is zero or positive.
ZeroCompares(op, c) ==
  CASE op = "<" -> c.num > 0
    [] op = "<=" -> TRUE
    [] op = ">" -> FALSE
    [] op = ">=" -> c.num = 0
    [] op = "==" -> c.num = 0
    [] op = "!=" -> c.num > 0

\* The entry a path names in the returned summary is there and is an object.
ResolvesToObject(path) ==
  /\ Resolves(path.group, path.stat)
  /\ "object" \in DOMAIN json_get(json_get(outcome.metrics, path.group),
                                  path.stat)

\* C30: a threshold `group.stat` whose entry in the summary exists and is an
\* object (the rollup of a scenario, the series of a tag) passes exactly when
\* `0.0 op c` holds for its expression `op c`.
C30_NonNumberEvaluatesAsZero ==
  outcome.returned = "ok" =>
    \A i \in 1..Len(ConfiguredThresholds) :
      \A path \in ObjectPaths, op \in Operators, c \in ObjectThresholdValues :
        ( /\ ConfiguredThresholds[i].metric = path.group \o "." \o path.stat
          /\ ConfiguredThresholds[i].expression = op \o " " \o c.text
          /\ ResolvesToObject(path) )
        => (outcome.thresholds[i].passed <=> ZeroCompares(op, c))

\* run() has returned a passed threshold on the series of the tag status:200,
\* which the summary has, read as `0.0 < 0.5`.
C30_Witness ==
  /\ outcome.returned = "ok"
  /\ Len(outcome.thresholds) = 1
  /\ outcome.thresholds[1].metric = "by_tag.status:200"
  /\ outcome.thresholds[1].expression = "< 0.5"
  /\ ResolvesToObject([group |-> "by_tag", stat |-> "status:200"])
  /\ outcome.thresholds[1].passed
====
